---- MODULE Spec2Model ----
(***************************************************************************)
(* Verification model of ercpy: the despike filter rm_duds and the image   *)
(* aligner align_img (src/ercpy/mtools.py, src/ercpy/utils.py), the angle  *)
(* wrapping of utils.py and the hologram reconstruction of holography.py.  *)
(*                                                                         *)
(* Images are 2D integer arrays [shape |-> <<rows, cols>>, data |-> f]     *)
(* with f a function on (0..rows-1) \X (0..cols-1).  Arrays live in a heap *)
(* (id -> array) so that in-place mutation and aliasing are visible.       *)
(* Arithmetic is exact: the float comparison diff > sigma*sqrt(var) is     *)
(* decided on integers after squaring.                                     *)
(***************************************************************************)
EXTENDS Integers, Sequences, FiniteSets, TLC

VARIABLES
  heap,     \* id -> array: every ndarray alive in the run
  d_pc,     \* rm_duds: "ready", "returned" or "raised"
  d_args,   \* rm_duds: [img, sigma, median_k]
  d_loc,    \* rm_duds: its locals at the last return
  d_ret,    \* rm_duds: the returned tuple
  d_hist,   \* the array passed to rm_duds as it was before each call, oldest first
  d_calls,  \* rm_duds calls made so far
  a_pc,     \* align_img: position in the function body
  a_args,   \* align_img: its arguments
  a_work,   \* align_img: img_one_m, img_two_m
  a_rect,   \* align_img: rect.x0, rect.y0, rect.x1, rect.y1
  a_drift,  \* align_img: (xdrift, ydrift), in quarter pixels
  a_ret,    \* align_img: the returned tuple
  a_err,    \* align_img: the exception raised, or "none"
  a_log,    \* align_img: filtering and interactive requests, in order
  w_fn,     \* the angle function called last: "wrap_to_pi", "wrap" or "none"
  w_angle,  \* its argument
  w_out,    \* its result
  h_utils,  \* holography.py: whether the global name utils is bound
  h_tasks,  \* task -> a running call of reconstruct or reconstruct_holo
  r_roi,    \* a RoiRect: x0, y0, x1, y1, set, and the canvas callbacks it connected
  r_err,    \* RoiRect: the exception its last handler raised, or "none"
  r_made,   \* RoiRect: the rectangle stored at the first release after a press
  r_n,      \* RoiRect: canvas events delivered so far
  f_args,   \* the Fresnel mask of reconstruct_holo: hologram shape, sb_pos, sb_size
  f_out     \* the Fresnel mask of reconstruct_holo: the mask built, or the exception

dvars == <<d_pc, d_args, d_loc, d_ret, d_hist, d_calls>>

avars == <<a_pc, a_args, a_work, a_rect, a_drift, a_ret, a_err, a_log>>

wvars == <<w_fn, w_angle, w_out>>

hvars == <<h_utils, h_tasks>>

rvars == <<r_roi, r_err, r_made, r_n>>

fvars == <<f_args, f_out>>

vars == <<heap, dvars, avars, wvars, hvars, rvars, fvars>>

(* ------------------------------ bounds -------------------------------- *)

\* edge of the square test image of the despike claims
TestDim == 16
\* edge of the small images
SmallDim == 8
\* non-zero background value of a uniform image
Bg == 3
\* height of a spike above the background
SpikeHeight == 40
\* largest median kernel tried
MaxKernel == 5
\* calls of rm_duds made on one array
MaxCalls == 2

\* rm_duds(img, sigma=8.0, median_k=5)
DefaultSigma == 8
DefaultKernel == 5
\* a second, smaller sigma
SmallSigma == 2
\* edge of a large image
BigDim == 28

\* largest image of the alignment runs
MaxRows == 3
MaxCols == 3
\* largest manual offset, in pixels
MaxShift == 3
\* largest drift of the registration estimator, in quarter pixels
MaxDriftQ == 5
\* largest drift of the correlation estimator, in pixels
MaxPeak == 1

\* upsample = 4: the registration reports quarter pixels
DriftDen == 4

(* ------------------------------ arrays -------------------------------- *)

Pix(R, C) == (0 .. R - 1) \X (0 .. C - 1)

\* f, evaluated once: a function value is otherwise evaluated again at each
\* application
Eager(f) == IF f = f THEN f ELSE f

\* an ndarray of shape (R, C)
Arr(R, C, f) == [shape |-> <<R, C>>, data |-> Eager(f)]

Rows(a) == a.shape[1]

Cols(a) == a.shape[2]

Abs(x) == IF x < 0 THEN -x ELSE x

RECURSIVE SumSet(_, _)
\* sum of g[v] * v over a finite set of integers vs
SumSet(vs, g) ==
  IF vs = {} THEN 0
  ELSE LET v == CHOOSE x \in vs : TRUE
       IN  g[v] * v + SumSet(vs \ {v}, g)

\* np.sum of an integer array, by histogram
ArrSum(f) ==
  LET vals == {f[p] : p \in DOMAIN f}
      cnt  == [v \in vals |-> Cardinality({p \in DOMAIN f : f[p] = v})]
  IN  SumSet(vals, cnt)

(* ------------------------- scipy.signal.medfilt ----------------------- *)

\* value of the zero-padded array at (r, c)
Padded(a, r, c) ==
  IF r >= 0 /\ r < Rows(a) /\ c >= 0 /\ c < Cols(a) THEN a.data[<<r, c>>] ELSE 0

\* the k x k window around (r, c), as a function on the offsets
Window(a, r, c, k) ==
  LET h == k \div 2
  IN  Eager([o \in (-h .. h) \X (-h .. h) |-> Padded(a, r + o[1], c + o[2])])

\* the element of rank n (0-based, ascending) of the values of w
OrderStat(w, n) ==
  CHOOSE v \in {w[o] : o \in DOMAIN w} :
    /\ Cardinality({o \in DOMAIN w : w[o] < v}) <= n
    /\ Cardinality({o \in DOMAIN w : w[o] <= v}) > n

\* medfilt(img, k): the median of each zero-padded k x k window
MedFilt(a, k) ==
  Arr(Rows(a), Cols(a),
      [p \in Pix(Rows(a), Cols(a)) |-> OrderStat(Window(a, p[1], p[2], k), (k * k) \div 2)])

\* medfilt raises ValueError unless the kernel size is odd
KernelOk(k) == k % 2 = 1

(* ------------------------------- rm_duds ------------------------------ *)

\* diff_img = np.absolute(img - img_mf)
DiffImg(a, mf) ==
  Arr(Rows(a), Cols(a), [p \in DOMAIN a.data |-> Abs(a.data[p] - mf.data[p])])

\* N^2 * np.var(diff_img) = N * sum(d^2) - sum(d)^2
VarNum(d) ==
  LET N  == Cardinality(DOMAIN d.data)
      s1 == ArrSum(d.data)
      s2 == ArrSum([p \in DOMAIN d.data |-> d.data[p] * d.data[p]])
  IN  N * s2 - s1 * s1

\* mutant of Exceeds: the comparison is not strict
ExceedsOrEqual(x, sigma, V, N) ==
  IF sigma >= 0 THEN (x * N) * (x * N) >= sigma * sigma * V
  ELSE TRUE

\* x > sigma * sqrt(V) / N for x >= 0, V >= 0, N > 0
Exceeds(x, sigma, V, N) ==
  IF sigma >= 0 THEN (x * N) * (x * N) > sigma * sigma * V
  ELSE IF V = 0 THEN x > 0 ELSE TRUE

\* duds = diff_img > sigma * np.sqrt(np.var(diff_img))
Duds(d, sigma) ==
  LET N == Cardinality(DOMAIN d.data)
      V == VarNum(d)
  IN  Eager([p \in DOMAIN d.data |-> Exceeds(d.data[p], sigma, V, N)])

\* mutant of Replace: the whole image is overwritten, img[:] = img_mf
ReplaceAll(a, mf, duds) == Arr(Rows(a), Cols(a), mf.data)

\* img[duds] = img_mf[duds]
Replace(a, mf, duds) ==
  Arr(Rows(a), Cols(a),
      [p \in DOMAIN a.data |-> IF duds[p] THEN mf.data[p] ELSE a.data[p]])

\* n_duds = np.sum(duds)
CountDuds(duds) == Cardinality({p \in DOMAIN duds : duds[p]})

NoLocals == [img_mf |-> <<>>, diff_img |-> <<>>, duds |-> <<>>, n_duds |-> -1]

\* rm_duds runs to its return, or to the ValueError of medfilt
RmDuds ==
  /\ d_calls < MaxCalls
  /\ d_pc \in {"ready", "returned"}
  /\ LET img == heap[d_args.img]
     IN  IF ~KernelOk(d_args.median_k)
         THEN /\ d_pc' = "raised"
              /\ d_loc' = NoLocals
              /\ d_ret' = <<>>
              /\ heap' = heap
         ELSE \E img_mf \in {MedFilt(img, d_args.median_k)} :
              \E diff_img \in {DiffImg(img, img_mf)} :
              \E duds \in {Duds(diff_img, d_args.sigma)} :
                  /\ d_pc' = "returned"
                  /\ heap' = [heap EXCEPT ![d_args.img] = Replace(img, img_mf, duds)]
                  /\ d_loc' = [img_mf |-> img_mf, diff_img |-> diff_img,
                               duds |-> duds, n_duds |-> CountDuds(duds)]
                  /\ d_ret' = <<d_args.img, duds>>
  /\ d_hist' = Append(d_hist, heap[d_args.img])
  /\ d_calls' = d_calls + 1
  /\ UNCHANGED <<d_args, avars, wvars, hvars, rvars, fvars>>

(* ------------------------------ align_img ----------------------------- *)

\* an optional value: None, or a value
None == <<>>

Some(v) == <<v>>

\* a pixel count as quarter pixels; drifts are kept in quarter pixels
\* (register_translation at upsample = 4 reports multiples of 1/4)
Quarters(n) == n * DriftDen

\* np.int(q / 4): the fraction is cut off, towards zero
NpInt(q) == IF q >= 0 THEN q \div DriftDen ELSE -((-q) \div DriftDen)

\* mutant of RollRows: rows shifted past the edge are lost, zeros come in
ShiftRows(a, s) ==
  Arr(Rows(a), Cols(a),
      [p \in Pix(Rows(a), Cols(a)) |->
         IF p[1] - s >= 0 /\ p[1] - s < Rows(a) THEN a.data[<<p[1] - s, p[2]>>] ELSE 0])

\* np.roll(a, s, axis=0): row r of the result is row (r - s) mod rows of a
RollRows(a, s) ==
  Arr(Rows(a), Cols(a),
      [p \in Pix(Rows(a), Cols(a)) |-> a.data[<<(p[1] - s) % Rows(a), p[2]>>]])

\* np.roll(a, s, axis=1)
RollCols(a, s) ==
  Arr(Rows(a), Cols(a),
      [p \in Pix(Rows(a), Cols(a)) |-> a.data[<<p[1], (p[2] - s) % Cols(a)>>]])

\* length of the Python slice [lo:hi] of an axis of length n (None: open end)
SliceLen(n, lo, hi) ==
  LET clip(v, dflt) == IF v = None THEN dflt
                       ELSE IF v[1] < 0 THEN (IF n + v[1] < 0 THEN 0 ELSE n + v[1])
                       ELSE IF v[1] > n THEN n ELSE v[1]
      a == clip(lo, 0)
      b == clip(hi, n)
  IN  IF b > a THEN b - a ELSE 0

\* method is '<name>': the argument is that very string object.  A string
\* equal to the literal but built at run time (lit = FALSE) is another object.
Is(method, name) == method.name = name /\ method.lit

\* the rectangle when roi is False
FullRect(ry, cx) ==
  [x0 |-> Some(0), y0 |-> Some(0), x1 |-> Some(cx - 1), y1 |-> Some(ry - 1)]

NoRect == [x0 |-> None, y0 |-> None, x1 |-> None, y1 |-> None]

\* what a RoiRect holds when the two waits are over: nothing (no press),
\* the press alone, or a dragged rectangle
RoiOutcomes(ry, cx) ==
  {NoRect,
   [x0 |-> Some(0), y0 |-> Some(0), x1 |-> None, y1 |-> None],
   [x0 |-> Some(0), y0 |-> Some(0), x1 |-> Some(cx - 1), y1 |-> Some(ry - 1)],
   [x0 |-> Some(0), y0 |-> Some(0), x1 |-> Some(1), y1 |-> Some(1)]}

RectSet(rect) == rect.x0 # None /\ rect.y0 # None /\ rect.x1 # None /\ rect.y1 # None

\* xcorr does arithmetic on the rectangle: mtools on all four coordinates
\* (rect.y1 - rect.y0), utils on rect.y0 and rect.x0; None there is a TypeError
XcorrRectOk(impl, rect) ==
  IF impl = "mtools" THEN RectSet(rect) ELSE rect.x0 # None /\ rect.y0 # None

\* shape of img[rect.y0:rect.y1, rect.x0:rect.x1]
CropShape(ry, cx, rect) == <<SliceLen(ry, rect.y0, rect.y1), SliceLen(cx, rect.x0, rect.x1)>>

\* drifts an estimator may report, in quarter pixels
DriftQs == (-MaxDriftQ) .. MaxDriftQ

\* a fraction num / den of integers, den > 0: the floats of the rescaling
Frac(n, d) == [num |-> n, den |-> d]

\* np.min((a, b))
FracMin(a, b) == IF b.num * a.den < a.num * b.den THEN b ELSE a

\* a * b
FracMul(a, b) == Frac(a.num * b.num, a.den * b.den)

\* f is a whole number of quarter pixels
WholeQ(f) == (DriftDen * f.num) % f.den = 0

\* f in quarter pixels, for a whole number of them
InQuarters(f) == (DriftDen * f.num) \div f.den

\* (px_rescale_x, px_rescale_y): the image size over the ROI size in utils;
\* mtools has the rescaling commented out
PxRescale(impl, ry, cx, crop) ==
  IF impl = "utils" THEN <<Frac(cx, crop[2]), Frac(ry, crop[1])>>
  ELSE <<Frac(1, 1), Frac(1, 1)>>

\* upsample: 4 in mtools, np.min((px_rescale_x, px_rescale_y)) in utils
Upsample(impl, ry, cx, crop) ==
  IF impl = "utils"
  THEN FracMin(PxRescale(impl, ry, cx, crop)[1], PxRescale(impl, ry, cx, crop)[2])
  ELSE Frac(DriftDen, 1)

\* register_translation reports multiples of 1 / upsample: here k of them
Report(k, up) == Frac(k * up.den, up.num)

\* imresize(img, 1.0 / binning): a side of n pixels becomes int(n * (1.0 / binning))
Binned(n, binning) == n \div binning

\* indices tried for the peak of a correlation along a side of n pixels
PeakIndices(n) == 0 .. (IF n - 1 < MaxPeak THEN n - 1 ELSE MaxPeak)

\* positions a marker click may report (None: no click), in quarter pixels
MarkerQs == {None} \cup {Some(q) : q \in {0, 3, 4}}

\* mask = np.zeros((ry, cx)), the disk of radius filt_size set to 1: its shape
LowPassMask(ry, cx) == [shape |-> <<ry, cx>>]

\* (ry, cx) = img_one.shape; the band-pass filtering of both images
AlignFilter ==
  /\ a_pc = "start"
  /\ LET ry == Rows(heap[a_args.img_one])
         cx == Cols(heap[a_args.img_one])
     IN  IF a_args.sb_filtering
         THEN \/ /\ a_pc' = "filtered"
                 /\ a_work' = [one |-> [kind |-> "lowpass", of |-> a_args.img_one,
                                        mask |-> LowPassMask(ry, cx)],
                               two |-> [kind |-> "lowpass", of |-> a_args.img_two,
                                        mask |-> LowPassMask(ry, cx)]]
                 /\ a_log' = Append(a_log, "filter")
                 /\ a_err' = a_err
              \* rr has shape (cx, ry), mask has shape (ry, cx): mask[rr < filt_size]
              \* raises IndexError on a non-square image
              \/ /\ ry # cx
                 /\ a_pc' = "raised"
                 /\ a_err' = "IndexError"
                 /\ UNCHANGED <<a_work, a_log>>
         ELSE /\ a_pc' = "filtered"
              /\ a_work' = [one |-> [kind |-> "input", of |-> a_args.img_one],
                            two |-> [kind |-> "input", of |-> a_args.img_two]]
              /\ UNCHANGED <<a_log, a_err>>
  /\ UNCHANGED <<heap, dvars, wvars, hvars, rvars, fvars, a_args, a_rect, a_drift, a_ret>>

\* if roi: the rectangle drawn on the figure, else the fixed rectangle
AlignRoi ==
  /\ a_pc = "filtered"
  /\ LET ry == Rows(heap[a_args.img_one])
         cx == Cols(heap[a_args.img_one])
     IN  IF a_args.roi
         THEN /\ a_rect' \in RoiOutcomes(ry, cx)
              /\ a_log' = Append(a_log, "requestRectangle")
         ELSE /\ a_rect' = FullRect(ry, cx)
              /\ a_log' = a_log
  /\ a_pc' = "roi"
  /\ UNCHANGED <<heap, dvars, wvars, hvars, rvars, fvars, a_args, a_work, a_drift, a_ret, a_err>>

\* mutant of ManualDrift: the two entries are swapped
ManualDriftSwapped(manualxy) == <<Quarters(manualxy[1][2]), Quarters(manualxy[1][1])>>

\* the manual branch: xdrift = manualxy[0], ydrift = manualxy[1]
ManualDrift(manualxy) == <<Quarters(manualxy[1][1]), Quarters(manualxy[1][2])>>

\* if manualxy: a non-empty tuple is true, whatever its entries
Truthy(manualxy) == manualxy # None

Raise(e) ==
  /\ a_pc' = "raised"
  /\ a_err' = e
  /\ UNCHANGED <<a_drift, a_log, a_work>>

Estimated(d, log) ==
  /\ a_pc' = "estimated"
  /\ a_drift' = d
  /\ a_log' = log
  /\ a_err' = a_err
  /\ a_work' = a_work

\* the same, with the estimator's locals kept next to the working images
EstimatedWith(d, work) ==
  /\ a_pc' = "estimated"
  /\ a_drift' = d
  /\ a_work' = work
  /\ UNCHANGED <<a_log, a_err>>

\* method is 'imgreg': register_translation on the two crops.  Of the shifts
\* the estimator may report, those are tried that give a drift of a whole
\* number of quarter pixels, MaxDriftQ at most.
EstimateImgreg(ry, cx, crop) ==
  IF crop[1] = 0 \/ crop[2] = 0
  THEN Raise(IF a_args.impl = "utils" THEN "ZeroDivisionError" ELSE "EstimatorError")
  ELSE \E kx \in DriftQs, ky \in DriftQs :
         \E up \in {Upsample(a_args.impl, ry, cx, crop)} :
         \* shift is (dy, dx): ydrift = shift[0], xdrift = shift[1]
         \E shift \in {<<Report(ky, up), Report(kx, up)>>} :
         \E xdrift \in {FracMul(shift[2], PxRescale(a_args.impl, ry, cx, crop)[1])} :
         \E ydrift \in {FracMul(shift[1], PxRescale(a_args.impl, ry, cx, crop)[2])} :
           /\ WholeQ(xdrift) /\ InQuarters(xdrift) \in DriftQs
           /\ WholeQ(ydrift) /\ InQuarters(ydrift) \in DriftQs
           /\ EstimatedWith(<<InQuarters(xdrift), InQuarters(ydrift)>>,
                             [one |-> a_work.one, two |-> a_work.two,
                              upsample |-> up, shift |-> shift])

\* method is 'xcorr' in mtools: both images binned, the template cut from the
\* binned target, the peak of correlate2d(img_one_m, template, mode='same')
EstimateXcorrMtools(ry, cx) ==
  \E b \in {a_args.binning} :
  \E bry \in {Binned(ry, b)}, bcx \in {Binned(cx, b)} :
    \* an image cannot be resized to no pixel at all
    IF bry = 0 \/ bcx = 0 THEN Raise("ValueError")
    ELSE IF ~XcorrRectOk(a_args.impl, a_rect) THEN Raise("TypeError")
    ELSE \E template \in {<<SliceLen(bry, Some(a_rect.y0[1] \div b), Some(a_rect.y1[1] \div b)),
                              SliceLen(bcx, Some(a_rect.x0[1] \div b), Some(a_rect.x1[1] \div b))>>} :
         \E ypeak \in PeakIndices(bry), xpeak \in PeakIndices(bcx) :
           \* an empty template: the correlation raises or is zero everywhere
           \/ /\ template[1] = 0 \/ template[2] = 0
              /\ ypeak = 0 /\ xpeak = 0
              /\ Raise("ValueError")
           \/ /\ (template[1] = 0 \/ template[2] = 0) => (ypeak = 0 /\ xpeak = 0)
              /\ EstimatedWith(
                   <<Quarters((xpeak - (a_rect.x1[1] - a_rect.x0[1]) \div 2) * b),
                     Quarters((ypeak - (a_rect.y1[1] - a_rect.y0[1]) \div 2) * b)>>,
                   [one |-> a_work.one, two |-> a_work.two, binned |-> <<bry, bcx>>,
                    template |-> template, peak |-> <<ypeak, xpeak>>])

\* method is 'xcorr' in utils: the template cut from the reference, the peak
\* of correlate2d(template, img_two_m), of shape template + image - 1
EstimateXcorrUtils(ry, cx) ==
  \E template \in {CropShape(ry, cx, a_rect)} :
  \E ccy \in {template[1] + ry - 1}, ccx \in {template[2] + cx - 1} :
    IF ccy = 0 \/ ccx = 0 THEN Raise("ValueError")
    ELSE \E ypeak \in PeakIndices(ccy), xpeak \in PeakIndices(ccx) :
           \/ /\ template[1] = 0 \/ template[2] = 0
              /\ ypeak = 0 /\ xpeak = 0
              /\ Raise("ValueError")
           \/ /\ (template[1] = 0 \/ template[2] = 0) => (ypeak = 0 /\ xpeak = 0)
              /\ IF ~XcorrRectOk(a_args.impl, a_rect) THEN ypeak = 0 /\ xpeak = 0 /\ Raise("TypeError")
                 ELSE EstimatedWith(
                        <<Quarters(a_rect.x0[1] - xpeak - template[2] - 1),
                          Quarters(a_rect.y0[1] - ypeak - template[1] - 1)>>,
                        [one |-> a_work.one, two |-> a_work.two, binned |-> <<ry, cx>>,
                         template |-> template, peak |-> <<ypeak, xpeak>>])

\* the if/elif chain on method, down to xdrift and ydrift
AlignEstimate ==
  /\ a_pc = "roi"
  /\ LET ry   == Rows(heap[a_args.img_one])
         cx   == Cols(heap[a_args.img_one])
         m    == a_args.method
     IN  IF Is(m, "imgreg")
         THEN EstimateImgreg(ry, cx, CropShape(ry, cx, a_rect))
         ELSE IF Is(m, "xcorr")
         THEN IF a_args.impl = "mtools" THEN EstimateXcorrMtools(ry, cx)
              ELSE EstimateXcorrUtils(ry, cx)
         ELSE IF a_args.impl = "mtools" /\ Is(m, "feducial")
         THEN \E x1 \in MarkerQs, y1 \in MarkerQs, x2 \in MarkerQs, y2 \in MarkerQs :
                IF x1 = None \/ y1 = None \/ x2 = None \/ y2 = None
                THEN /\ a_pc' = "raised"
                     /\ a_err' = "TypeError"
                     /\ a_log' = a_log \o <<"requestPoint", "requestPoint">>
                     /\ UNCHANGED <<a_drift, a_work>>
                ELSE Estimated(<<x1[1] - x2[1], y1[1] - y2[1]>>,
                               a_log \o <<"requestPoint", "requestPoint">>)
         ELSE IF a_args.impl = "mtools" /\ Is(m, "manual")
         THEN IF Truthy(a_args.manualxy)
              THEN Estimated(ManualDrift(a_args.manualxy), a_log)
              ELSE Raise("ValueError")
         ELSE Raise("ValueError")
  /\ UNCHANGED <<heap, dvars, wvars, hvars, rvars, fvars, a_args, a_rect, a_ret>>

\* img_algn = np.roll(np.roll(img_two, np.int(ydrift), axis=0), np.int(xdrift), axis=1)
Aligned(img_two, drift) == RollCols(RollRows(img_two, NpInt(drift[2])), NpInt(drift[1]))

\* mutant of Allocate: the rolls done in place, on the array passed in
AllocateInPlace(hp, id, arr) == [hp EXCEPT ![id] = arr]

\* np.roll returns a new array: arr, made from the array id, joins the heap
Allocate(hp, id, arr) == Append(hp, arr)

\* the two rolls and the return of (img_algn, (xdrift, ydrift))
AlignApply ==
  /\ a_pc = "estimated"
  /\ heap' = Allocate(heap, a_args.img_two, Aligned(heap[a_args.img_two], a_drift))
  /\ a_ret' = [img_algn |-> Len(heap) + 1, drift |-> a_drift]
  /\ a_pc' = "returned"
  /\ UNCHANGED <<dvars, wvars, hvars, rvars, fvars, a_args, a_work, a_rect, a_drift, a_err, a_log>>

AlignIdle ==
  /\ a_pc = "idle"
  /\ a_args = [impl |-> "none"]
  /\ a_work = None
  /\ a_rect = NoRect
  /\ a_drift = None
  /\ a_ret = None
  /\ a_err = "none"
  /\ a_log = <<>>

DudsIdle ==
  /\ d_pc = "idle"
  /\ d_args = [img |-> 0]
  /\ d_loc = NoLocals
  /\ d_ret = <<>>
  /\ d_hist = <<>>
  /\ d_calls = 0

WrapIdle ==
  /\ w_fn = "none"
  /\ w_angle = 0
  /\ w_out = 0

HoloIdle ==
  /\ h_utils = FALSE
  /\ h_tasks = <<>>

RoiIdle ==
  /\ r_roi = [x0 |-> None]
  /\ r_err = "none"
  /\ r_made = None
  /\ r_n = 0

FresnelIdle ==
  /\ f_args = [sb_size |-> 0]
  /\ f_out = None

(* ---------------------------- input images ---------------------------- *)

Uniform(R, C, b) == Arr(R, C, [p \in Pix(R, C) |-> b])

Spiked(R, C, b, sp, h) ==
  Arr(R, C, [p \in Pix(R, C) |-> IF p = sp THEN b + h ELSE b])

\* coordinates tried for the spike: the border, next to it, and the inside
SpikeCoords(n) == {0, 1, 2, n \div 2, n - 1}

Backgrounds == {0, Bg}

SpikedImages(n) ==
  {Spiked(n, n, b, sp, SpikeHeight) :
     b \in Backgrounds, sp \in SpikeCoords(n) \X SpikeCoords(n)}

UniformImages(n) == {Uniform(n, n, b) : b \in Backgrounds}

\* the calls of rm_duds tried: small images with every sigma and kernel, the
\* test image and the large image with the defaults
\* thresholds the caller may pass that are not positive
NonPositiveSigmas == {0, 0 - SmallSigma}

DudCases ==
  ((UniformImages(SmallDim) \cup SpikedImages(SmallDim))
     \X {SmallSigma, DefaultSigma} \X (1 .. MaxKernel))
  \cup ((UniformImages(SmallDim) \cup SpikedImages(SmallDim))
     \X NonPositiveSigmas \X {DefaultKernel})
  \cup ((UniformImages(TestDim) \cup SpikedImages(TestDim))
     \X {DefaultSigma} \X {DefaultKernel})
  \cup ((UniformImages(BigDim)
           \cup {Spiked(BigDim, BigDim, b, <<BigDim \div 2, BigDim \div 2>>, SpikeHeight) :
                   b \in Backgrounds})
     \X {DefaultSigma} \X {DefaultKernel})

DudsInit ==
  /\ \E c \in DudCases :
       /\ heap = <<c[1]>>
       /\ d_args = [img |-> 1, sigma |-> c[2], median_k |-> c[3]]
  /\ d_pc = "ready"
  /\ d_loc = NoLocals
  /\ d_ret = <<>>
  /\ d_hist = <<>>
  /\ d_calls = 0
  /\ AlignIdle
  /\ WrapIdle
  /\ HoloIdle
  /\ RoiIdle
  /\ FresnelIdle

DudsNext == RmDuds

SpecDuds == DudsInit /\ [][DudsNext]_vars

(* --------------------------- despike claims --------------------------- *)

\* the array as it was before the last call of rm_duds
Before == d_hist[Len(d_hist)]

\* the array as it is now
Now == heap[d_args.img]

\* b is the value most pixels of a hold
IsBackground(a, b) ==
  2 * Cardinality({p \in DOMAIN a.data : a.data[p] = b}) > Cardinality(DOMAIN a.data)

\* the pixels of a that do not hold b
OffBackground(a, b) == {p \in DOMAIN a.data : a.data[p] # b}

\* a is uniform, of value b, but for one pixel, sp, which is higher
OneSpike(a, b, sp) ==
  /\ IsBackground(a, b)
  /\ OffBackground(a, b) = {sp}
  /\ a.data[sp] > b

Values(a) == {a.data[p] : p \in DOMAIN a.data}

\* m is a median of the values of w
IsMedian(w, m) ==
  /\ 2 * Cardinality({o \in DOMAIN w : w[o] <= m}) > Cardinality(DOMAIN w)
  /\ 2 * Cardinality({o \in DOMAIN w : w[o] >= m}) > Cardinality(DOMAIN w)

\* the first call has returned, made with sigma 8 and kernel 5 on a 16x16 image
TestCall ==
  /\ d_pc = "returned"
  /\ d_calls = 1
  /\ d_args.sigma = DefaultSigma
  /\ d_args.median_k = DefaultKernel
  /\ Before.shape = <<TestDim, TestDim>>

\* C6: on the 16x16 uniform image with one raised pixel, sigma 8 and kernel 5,
\* rm_duds flags that pixel alone and sets it to the background value.
C6_SpikeSetToBackground ==
  TestCall =>
    \A b \in Values(Before) : \A sp \in OffBackground(Before, b) :
      OneSpike(Before, b, sp) =>
        /\ \A p \in DOMAIN d_ret[2] : d_ret[2][p] <=> p = sp
        /\ Now.data[sp] = b

\* the part of C6 the code keeps: that pixel alone is flagged
C6_OnlySpikeFlagged ==
  TestCall =>
    \A b \in Values(Before) : \A sp \in OffBackground(Before, b) :
      OneSpike(Before, b, sp) => \A p \in DOMAIN d_ret[2] : d_ret[2][p] <=> p = sp

\* C7: a second rm_duds call, same sigma and kernel, on the result of a call on
\* a uniform image with one spike flags no pixel and changes no pixel (stated
\* for the default sigma and kernel).
C7_SecondCallIdle ==
  (d_pc = "returned" /\ d_calls = 2 /\ d_args.sigma = DefaultSigma
     /\ d_args.median_k = DefaultKernel) =>
    \A b \in Values(d_hist[1]) : \A sp \in OffBackground(d_hist[1], b) :
      OneSpike(d_hist[1], b, sp) =>
        /\ \A p \in DOMAIN d_ret[2] : ~d_ret[2][p]
        /\ Now = Before

\* the part of C7 the code keeps: the 16x16 image, with sigma 8 and kernel 5
C7_SecondCallIdleTest ==
  (d_pc = "returned" /\ d_calls = 2 /\ d_args.sigma = DefaultSigma
     /\ d_args.median_k = DefaultKernel /\ Before.shape = <<TestDim, TestDim>>) =>
    \A b \in Values(d_hist[1]) : \A sp \in OffBackground(d_hist[1], b) :
      OneSpike(d_hist[1], b, sp) =>
        /\ \A p \in DOMAIN d_ret[2] : ~d_ret[2][p]
        /\ Now = Before

\* C8: rm_duds returns its input array, changed in place: a flagged pixel holds
\* the median of its window in the original image, any other pixel its
\* original value.
C8_InPlace ==
  d_pc = "returned" =>
    /\ d_ret[1] = d_args.img
    /\ Len(heap) = 1
    /\ Now.shape = Before.shape
    /\ \A p \in DOMAIN Before.data :
         IF d_ret[2][p]
         THEN /\ Now.data[p] = d_loc.img_mf.data[p]
              /\ IsMedian(Window(Before, p[1], p[2], d_args.median_k), Now.data[p])
         ELSE Now.data[p] = Before.data[p]

C8_Witness ==
  /\ d_pc = "returned"
  /\ \E p \in DOMAIN Before.data : d_ret[2][p] /\ Now.data[p] # Before.data[p]
  /\ \E p \in DOMAIN Before.data : ~d_ret[2][p] /\ d_loc.img_mf.data[p] # Before.data[p]

\* x > sigma * sqrt((N * s2 - s1 * s1) / N^2), for x >= 0
StrictlyAbove(x, sigma, N, s1, s2) ==
  IF sigma >= 0 THEN (x * N) * (x * N) > (sigma * sigma) * (N * s2 - s1 * s1)
  ELSE x > 0 \/ N * s2 - s1 * s1 > 0

C10_BadKernelRaises ==
  (d_calls >= 1 /\ (d_args.median_k % 2 = 0 \/ d_args.median_k < 3)) =>
    /\ d_pc = "raised"
    /\ Now = d_hist[1]

\* the part of C10 the code keeps: an even kernel size raises
C10_EvenKernelRaises ==
  (d_calls >= 1 /\ d_args.median_k % 2 = 0) => d_pc = "raised" /\ Now = d_hist[1]

\* C11: rm_duds called with sigma <= 0 raises and leaves the image unchanged.
C11_NonPositiveSigmaRaises ==
  (d_calls >= 1 /\ d_args.sigma <= 0) =>
    /\ d_pc = "raised"
    /\ Now = d_hist[1]

\* an image whose pixels all differ: pixel (r, c) holds r * cols + c + 1
Labelled(R, C) == Arr(R, C, [p \in Pix(R, C) |-> p[1] * C + p[2] + 1])

\* binning=2 in the signature of mtools.align_img
DefaultBinning == 2

\* bin factors tried with the xcorr strategy
Binnings == {1, DefaultBinning}

MethodNames == {"imgreg", "xcorr", "feducial", "manual", "fiducial", "gui_shift"}

Offsets == {None} \cup {Some(<<x, y>>) : x \in (-MaxShift) .. MaxShift, y \in (-MaxShift) .. MaxShift}

\* the calls of align_img tried: every offset with the manual strategy, two
\* offsets with the others
AlignCases ==
  [impl : {"mtools", "utils"}, method : [name : {"manual"}, lit : BOOLEAN],
   roi : BOOLEAN, sb_filtering : BOOLEAN, manualxy : Offsets, binning : {DefaultBinning},
   img_one : {1}, img_two : {2}]
  \cup
  [impl : {"mtools", "utils"}, method : [name : MethodNames \ {"manual"}, lit : BOOLEAN],
   roi : BOOLEAN, sb_filtering : BOOLEAN, manualxy : {None, Some(<<1, -1>>)},
   binning : {DefaultBinning}, img_one : {1}, img_two : {2}]
  \cup
  [impl : {"mtools", "utils"}, method : [name : {"xcorr"}, lit : {TRUE}],
   roi : BOOLEAN, sb_filtering : BOOLEAN, manualxy : {None}, binning : Binnings,
   img_one : {1}, img_two : {2}]

AlignInit ==
  /\ \E ry \in 1 .. MaxRows, cx \in 1 .. MaxCols :
       heap = <<Uniform(ry, cx, 0), Labelled(ry, cx)>>
  /\ a_args \in AlignCases
  /\ a_pc = "start"
  /\ a_work = None
  /\ a_rect = NoRect
  /\ a_drift = None
  /\ a_ret = None
  /\ a_err = "none"
  /\ a_log = <<>>
  /\ DudsIdle
  /\ WrapIdle
  /\ HoloIdle
  /\ RoiIdle
  /\ FresnelIdle

AlignNext == AlignFilter \/ AlignRoi \/ AlignEstimate \/ AlignApply

SpecAlign == AlignInit /\ [][AlignNext]_vars

(* -------------------------- alignment claims -------------------------- *)

AlignDone == a_pc \in {"returned", "raised"}

Target == heap[a_args.img_two]

AlignedImg == heap[a_ret.img_algn]

\* the strategy the call selects is the manual one
ManualCall == a_args.impl = "mtools" /\ a_args.method = [name |-> "manual", lit |-> TRUE]

RecognisedNames == {"imgreg", "xcorr", "feducial", "manual"}

\* C2: a strategy name that is none of the four recognised ones makes align_img
\* raise ValueError and return nothing.
C2_UnknownRaisesValueError ==
  (AlignDone /\ a_args.method.name \notin RecognisedNames) =>
    /\ a_pc = "raised"
    /\ a_err = "ValueError"
    /\ a_ret = None

\* the part of C2 the code keeps: the call never returns, and it raises
\* ValueError once the filtering is behind it
C2_UnknownNeverReturns ==
  (a_args.method.name \notin RecognisedNames) =>
    /\ a_pc # "returned"
    /\ (a_pc = "raised" /\ a_err # "ValueError") => a_err = "IndexError"

\* C3: manual strategy: without an offset the call raises ValueError and rolls
\* nothing; with an offset, (0, 0) included, it raises nothing.
C3_ManualNeedsOffset ==
  (AlignDone /\ ManualCall) =>
    IF a_args.manualxy = None
    THEN a_pc = "raised" /\ a_err = "ValueError" /\ a_ret = None /\ Len(heap) = 2
    ELSE a_pc = "returned" /\ a_err = "none"

\* the part of C3 the code keeps: the same, the filtering left out
C3_ManualNeedsOffsetUnfiltered ==
  (AlignDone /\ ManualCall /\ ~a_args.sb_filtering) =>
    IF a_args.manualxy = None
    THEN a_pc = "raised" /\ a_err = "ValueError" /\ a_ret = None /\ Len(heap) = 2
    ELSE a_pc = "returned" /\ a_err = "none"

\* s is a nearest integer to q quarter pixels
Nearest(s, q) == Abs(Quarters(s) - q) <= DriftDen \div 2

\* s is q quarter pixels with the fraction dropped or rounded
WithinOne(s, q) == Abs(Quarters(s) - q) < DriftDen

Shifts == (-(MaxShift + MaxDriftQ)) .. (MaxShift + MaxDriftQ)

\* b is a rolled by sy rows and sx columns, wrapping around
RolledBy(b, a, sy, sx) ==
  /\ b.shape = a.shape
  /\ \A p \in DOMAIN a.data :
       b.data[<<(p[1] + sy) % Rows(a), (p[2] + sx) % Cols(a)>>] = a.data[p]

\* C4: the aligned image is the target rolled by the drift, each component
\* rounded to the nearest integer.
C4_RollByRoundedDrift ==
  a_pc = "returned" =>
    \E sy \in Shifts, sx \in Shifts :
      /\ Nearest(sx, a_ret.drift[1])
      /\ Nearest(sy, a_ret.drift[2])
      /\ RolledBy(AlignedImg, Target, sy, sx)

\* what the code does instead: the fraction is dropped
C4_RollByTruncatedDrift ==
  a_pc = "returned" =>
    \E sy \in Shifts, sx \in Shifts :
      /\ Abs(Quarters(sx)) <= Abs(a_ret.drift[1]) /\ WithinOne(sx, a_ret.drift[1])
      /\ Abs(Quarters(sy)) <= Abs(a_ret.drift[2]) /\ WithinOne(sy, a_ret.drift[2])
      /\ RolledBy(AlignedImg, Target, sy, sx)

\* C5: the aligned image has the shape of the target and is the target rolled
\* with wrap-around by whole pixels (by the drift itself when it is whole, by
\* the drift less than a pixel off otherwise): the same pixels, none cropped,
\* none filled in.
C5_WrapAroundPermutation ==
  a_pc = "returned" =>
    /\ \E sy \in Shifts, sx \in Shifts :
         /\ WithinOne(sx, a_ret.drift[1])
         /\ WithinOne(sy, a_ret.drift[2])
         /\ RolledBy(AlignedImg, Target, sy, sx)
    /\ \A v \in {Target.data[p] : p \in DOMAIN Target.data}
                  \cup {AlignedImg.data[p] : p \in DOMAIN AlignedImg.data} :
         Cardinality({p \in DOMAIN Target.data : Target.data[p] = v})
           = Cardinality({p \in DOMAIN AlignedImg.data : AlignedImg.data[p] = v})

C5_Witness ==
  /\ a_pc = "returned"
  /\ a_ret.drift[2] % DriftDen # 0
  /\ AlignedImg # Target
  /\ Rows(Target) > 1 /\ Cols(Target) > 1

(* ----------------- hologram reconstruction (holography.py) ------------ *)

\* Holograms are integer arrays whose sides are 1, 2 or 4 pixels long: the
\* discrete Fourier transform of such a side has the twiddle factors 1, -i,
\* -1, i only, so the transform is computed exactly, on complex numbers
\* <<re, im>> with integer parts.
Sides == {1, 2, 4}

CAdd(a, b) == <<a[1] + b[1], a[2] + b[2]>>

CMul(a, b) == <<a[1] * b[1] - a[2] * b[2], a[1] * b[2] + a[2] * b[1]>>

\* exp(-2 pi i k / n) for n in Sides
Tw(n, k) ==
  LET q == (k * (4 \div n)) % 4
  IN  IF q = 0 THEN <<1, 0>> ELSE IF q = 1 THEN <<0, -1>>
      ELSE IF q = 2 THEN <<-1, 0>> ELSE <<0, 1>>

RECURSIVE CSumTo(_, _)
\* f[0] + ... + f[n - 1], complex
CSumTo(f, n) == IF n = 0 THEN <<0, 0>> ELSE CAdd(f[n - 1], CSumTo(f, n - 1))

\* scipy.fftpack.fft2 of a real integer array
Fft2(a) ==
  LET R == Rows(a)
      C == Cols(a)
  IN  Arr(R, C,
          [p \in Pix(R, C) |->
             CSumTo([i \in 0 .. R * C - 1 |->
                       CMul(<<a.data[<<i \div C, i % C>>], 0>>,
                            CMul(Tw(R, p[1] * (i \div C)), Tw(C, p[2] * (i % C))))],
                    R * C)])

\* scipy.fftpack.fftshift: each axis rolled by half its length
FftShift(a) ==
  Arr(Rows(a), Cols(a),
      [p \in Pix(Rows(a), Cols(a)) |->
         a.data[<<(p[1] - Rows(a) \div 2) % Rows(a), (p[2] - Cols(a) \div 2) % Cols(a)>>]])

\* first index of the Python slice [lo:hi] of an axis of length n: a negative
\* bound counts from the end, a bound past an end is clipped
SliceStart(n, lo) ==
  IF lo = None THEN 0
  ELSE IF lo[1] < 0 THEN (IF n + lo[1] < 0 THEN 0 ELSE n + lo[1])
  ELSE IF lo[1] > n THEN n ELSE lo[1]

\* a[y0:y1, x0:x1]
Slice2(a, y0, y1, x0, x1) ==
  LET r0 == SliceStart(Rows(a), y0)
      c0 == SliceStart(Cols(a), x0)
      R  == SliceLen(Rows(a), y0, y1)
      C  == SliceLen(Cols(a), x0, x1)
  IN  Arr(R, C, [p \in Pix(R, C) |-> a.data[<<r0 + p[1], c0 + p[2]>>]])

IsEmpty(a) == Rows(a) = 0 \/ Cols(a) = 0

\* the order numpy puts on complex numbers: by real part, then by imaginary part
CGreater(a, b) == a[1] > b[1] \/ (a[1] = b[1] /\ a[2] > b[2])

\* np.unravel_index(a.argmax(), a.shape) of a non-empty complex array: the
\* first (row-major) element that no element is greater than
ArgMax(a) ==
  CHOOSE p \in DOMAIN a.data :
    /\ \A q \in DOMAIN a.data : ~CGreater(a.data[q], a.data[p])
    /\ \A q \in DOMAIN a.data :
         a.data[q] = a.data[p] => q[1] * Cols(a) + q[2] >= p[1] * Cols(a) + p[2]

\* shape of the elementwise product of two arrays, None when numpy cannot
\* broadcast them
Broadcast(s, t) ==
  IF s = None \/ t = None THEN None
  ELSE IF \A i \in 1 .. 2 : s[1][i] = t[1][i] \/ s[1][i] = 1 \/ t[1][i] = 1
       THEN Some(<<IF s[1][1] = 1 THEN t[1][1] ELSE s[1][1],
                   IF s[1][2] = 1 THEN t[1][2] ELSE s[1][2]>>)
       ELSE None

Min(a, b) == IF a < b THEN a ELSE b

\* c_mask of reconstruct_holo for a square ROI of edge n: 1 where the distance
\* to the ROI centre is strictly below sb_l
CircularAperture(n, sb_l) ==
  Arr(n, n,
      [p \in Pix(n, n) |->
         LET gy == ((0 - n) \div 2) + p[1]
             gx == ((0 - n) \div 2) + p[2]
         IN  IF gy * gy + gx * gx < sb_l * sb_l THEN 1 ELSE 0])

\* the locals of a reconstruct_holo call when it ends; None: never assigned
HoloFrame(err, sb_roi, c_mask, wav) ==
  [err |-> err, sb_roi |-> sb_roi, c_mask |-> c_mask,
   f_mask |-> None, w_one |-> None, w_two |-> None, wav |-> wav]

\* line 230: f_mask = utils.poly_to_mask(abcd[:,1], abcd[:,0], sb_roi.shape),
\* here its shape
Masked(fr, sb_ny, sb_nx) == [fr EXCEPT !.f_mask = Some([shape |-> <<sb_ny, sb_nx>>])]

\* lines 233-235: w_one reshaped to (sb_size, 1), w_two its outer product
Windowed(fr, sb_size) ==
  [fr EXCEPT !.w_one = Some([shape |-> <<sb_size, 1>>]),
             !.w_two = Some([shape |-> <<sb_size, sb_size>>])]

\* ifft2(fftshift(sb_roi * c_mask * np.logical_not(f_mask) * w_two)) as the
\* array of that shape determined by the ROI under the aperture, by the
\* direction (sx/2 - sb_pos[0], sy/2 - sb_pos[1]) the Fresnel strip is laid
\* along and by the window length sb_size
Wav(shape, sb_roi, c_mask, dir, sb_size) ==
  [shape |-> shape,
   aperture |-> [p \in DOMAIN sb_roi.data |->
                   IF c_mask.data[p] = 1 THEN sb_roi.data[p] ELSE <<0, 0>>],
   dir |-> dir,
   window |-> sb_size]

\* what ifft2 makes of an array with no elements: fftpack either rejects the
\* number of data points or hands back an empty array, by its version
EmptyIfft(fr, shape, sb_size) ==
  {[fr EXCEPT !.err = "ValueError"],
   [fr EXCEPT !.wav = Some([shape |-> shape, aperture |-> <<>>, dir |-> <<0, 0>>,
                            window |-> sb_size])]}

\* reconstruct_holo(holo_data, sb_size, sb_pos, [], []): the frames it can end
\* with; utils tells whether the module's global name utils is bound
ReconstructHolo(holo_data, sb_size, sb_pos, utils) ==
  LET sx == Rows(holo_data)
      sy == Cols(holo_data)
      h_hw_fft == FftShift(Fft2(holo_data))
      half == sb_size \div 2
      sb_roi == Slice2(h_hw_fft, Some(sb_pos[1] - half), Some(sb_pos[1] + half),
                                 Some(sb_pos[2] - half), Some(sb_pos[2] + half))
      sb_ny == Rows(sb_roi)
      sb_nx == Cols(sb_roi)
      sb_l == Min(sb_ny \div 2, sb_nx \div 2)
      c_mask == CircularAperture(sb_ny, sb_l)
      dir == <<sx \div 2 - sb_pos[1], sy \div 2 - sb_pos[2]>>
      prod == Broadcast(Some(<<sb_ny, sb_nx>>), Some(<<sb_size, sb_size>>))
      fr == HoloFrame("none", Some(sb_roi), Some(c_mask), None)
      masked == Masked(fr, sb_ny, sb_nx)
      windowed == Windowed(masked, sb_size)
  IN  IF sb_nx # sb_ny
        \* line 211: c_mask has shape (sb_nx, sb_ny), its index (sb_ny, sb_nx)
        THEN {HoloFrame("IndexError", Some(sb_roi), None, None)}
      ELSE IF ~utils
        \* line 220: utils.wrap
        THEN {[fr EXCEPT !.err = "NameError"]}
      ELSE IF sb_size < 0
        \* lines 233-234: linspace and reshape to a negative length
        THEN {[masked EXCEPT !.err = "ValueError"]}
      ELSE IF prod = None
        \* line 238: the ROI and the window do not broadcast
        THEN {[windowed EXCEPT !.err = "ValueError"]}
      ELSE IF prod[1][1] = 0 \/ prod[1][2] = 0
        THEN EmptyIfft(windowed, prod[1], sb_size)
      ELSE {[windowed EXCEPT !.wav = Some(Wav(prod[1], sb_roi, c_mask, dir, sb_size))]}

\* lines 107-111 (rect from rec_param) and 87-93 (rect from the RoiRect): the
\* sideband position inside eh_hw_fft[y0:y1, x0:x1]; coordinates are None or
\* Some(n).  The errors that end it: argmax of an empty array is a ValueError;
\* np.round(None) raises, AttributeError or TypeError by the numpy version.
Locate(eh_hw_fft, x0, y0, x1, y1) ==
  LET arect == Slice2(eh_hw_fft, y0, y1, x0, x1)
  IN  IF IsEmpty(arect) THEN {[err |-> "ValueError", sb_pos |-> None]}
      ELSE IF y0 = None \/ x0 = None
        THEN {[err |-> e, sb_pos |-> None] : e \in {"AttributeError", "TypeError"}}
      ELSE {[err |-> "none",
             sb_pos |-> Some(<<y0[1] + ArgMax(arect)[1], x0[1] + ArgMax(arect)[2]>>)]}

\* line 101: sb_size - np.mod(sb_size, 2)
EvenDown(n) == n - (n % 2)

\* the int 1 that stands for the reference wave when there is no reference
One == [shape |-> <<>>, scalar |-> 1]

\* lines 121-123: wave = w_obj / w_ref, phase = np.angle(wave),
\* amp = np.absolute(wave).  Dividing by the int 1 leaves every element as it
\* is; dividing by a wave needs the two shapes to broadcast.
Quotient(w_obj, w_ref) ==
  IF w_ref = Some(One) THEN Some(w_obj)
  ELSE IF Broadcast(Some(w_obj.shape), Some(w_ref[1].shape)) = None THEN None
  ELSE Some([shape |-> Broadcast(Some(w_obj.shape), Some(w_ref[1].shape))[1],
             num |-> w_obj, den |-> w_ref[1]])

Angle(wave) == [angle_of |-> wave]

Absolute(wave) == [absolute_of |-> wave]

NoHoloLocals ==
  [rect |-> NoRect, sb_pos |-> None, sb_size |-> None, rec_param |-> None,
   w_ref |-> None, w_obj |-> None, frames |-> <<>>]

\* a call of reconstruct(holo_data, ref_data, rec_param) or of
\* reconstruct_holo(holo_data, sb_size, sb_pos, [], []); holo_data, ref_data
\* and rec_param are heap ids (or None)
Task(op, holo_data, ref_data, rec_param, sb_size, sb_pos) ==
  [op |-> op, holo_data |-> holo_data, ref_data |-> ref_data, rec_param |-> rec_param,
   sb_size |-> sb_size, sb_pos |-> sb_pos,
   given |-> None,
   pc |-> "start", loc |-> NoHoloLocals, ret |-> None, err |-> "none", log |-> <<>>]

\* reconstruct called again with the tuple an earlier call returned as its
\* rec_param: the tuple is handed over as it is, not through the heap
TaskGiven(holo_data, ref_data, rec_param) ==
  [Task("reconstruct", holo_data, ref_data, None, 0, <<0, 0>>) EXCEPT !.given = Some(rec_param)]

\* the rec_param a call received
Received(hp, task) ==
  IF task.given # None THEN task.given[1] ELSE hp[task.rec_param[1]]

\* a coordinate of it: a returned tuple holds what the RoiRect held, None or
\* a number
Coordinate(task, c) == IF task.given # None THEN c ELSE Some(c)

\* mutant of SetTask: the locals are module globals, one set for all calls
SetTaskShared(tasks, t, pc, loc) ==
  [u \in DOMAIN tasks |->
     IF u = t THEN [tasks[u] EXCEPT !.pc = pc, !.loc = loc]
     ELSE [tasks[u] EXCEPT !.loc = loc]]

\* a step of call t: its position and its locals change, no other call's do
SetTask(tasks, t, pc, loc) == [tasks EXCEPT ![t].pc = pc, ![t].loc = loc]

\* call t ends with exception e
RaiseIn(tasks, t, e, loc) == [tasks EXCEPT ![t].pc = "raised", ![t].err = e, ![t].loc = loc]

\* the rectangles a RoiRect can hold after the two waits of 5 s: none (no
\* press), the press alone, a dragged rectangle
HoloRects(sx, sy) ==
  {NoRect,
   [x0 |-> Some(sy \div 2), y0 |-> Some(0), x1 |-> None, y1 |-> None],
   [x0 |-> Some(sy \div 2 + 1), y0 |-> Some(0), x1 |-> Some(sy), y1 |-> Some(sx)],
   [x0 |-> Some(0), y0 |-> Some(0), x1 |-> Some(sy \div 2), y1 |-> Some(sx)]}

\* lines 76-86 when rec_param is None: the figure, the RoiRect, the two waits
RecSelect(t) ==
  /\ h_tasks[t].op = "reconstruct"
  /\ h_tasks[t].pc = "start"
  /\ h_tasks[t].rec_param = None
  /\ h_tasks[t].given = None
  /\ IF ~h_utils
       THEN h_tasks' = RaiseIn(h_tasks, t, "NameError", h_tasks[t].loc)
       ELSE \E rect \in HoloRects(Rows(heap[h_tasks[t].holo_data]),
                                  Cols(heap[h_tasks[t].holo_data])) :
              h_tasks' = [SetTask(h_tasks, t, "selected", [h_tasks[t].loc EXCEPT !.rect = rect])
                            EXCEPT ![t].log = Append(@, "requestRectangle")]
  /\ UNCHANGED <<heap, h_utils, dvars, avars, wvars, rvars, fvars>>

\* sizes the user may type at the prompt of line 100
TypedSizes == {2, 3}

\* mutant of RecParam: the rectangle stored with x and y exchanged
RecParamSwapped(rect, sb_size) ==
  [x0 |-> rect.y0, y0 |-> rect.x0, x1 |-> rect.y1, y1 |-> rect.x1, sb_size |-> sb_size]

\* line 105: rec_param = (rect.x0, rect.y0, rect.x1, rect.y1, sb_size)
RecParam(rect, sb_size) ==
  [x0 |-> rect.x0, y0 |-> rect.y0, x1 |-> rect.x1, y1 |-> rect.y1, sb_size |-> sb_size]

\* lines 87-105: the sideband inside the drawn rectangle, the size typed in
RecLocateDrawn(t) ==
  /\ h_tasks[t].op = "reconstruct"
  /\ h_tasks[t].pc = "selected"
  /\ \E rect \in {h_tasks[t].loc.rect} :
     \E o \in Locate(FftShift(Fft2(heap[h_tasks[t].holo_data])),
                     rect.x0, rect.y0, rect.x1, rect.y1) :
       IF o.err # "none"
         THEN h_tasks' = RaiseIn(h_tasks, t, o.err, h_tasks[t].loc)
         ELSE \E typed \in TypedSizes :
                h_tasks' =
                  [SetTask(h_tasks, t, "located",
                           [h_tasks[t].loc EXCEPT
                              !.sb_pos = o.sb_pos,
                              !.sb_size = Some(EvenDown(typed)),
                              !.rec_param = Some(RecParam(rect, EvenDown(typed)))])
                     EXCEPT ![t].log = Append(@, "input")]
  /\ UNCHANGED <<heap, h_utils, dvars, avars, wvars, rvars, fvars>>

\* lines 76-77 and 107-111: the sideband inside the rectangle of rec_param,
\* the size its last element
RecLocateGiven(t) ==
  /\ h_tasks[t].op = "reconstruct"
  /\ h_tasks[t].pc = "start"
  /\ h_tasks[t].rec_param # None \/ h_tasks[t].given # None
  /\ \E rec_param \in {Received(heap, h_tasks[t])} :
     \E o \in Locate(FftShift(Fft2(heap[h_tasks[t].holo_data])),
                     Coordinate(h_tasks[t], rec_param.x0), Coordinate(h_tasks[t], rec_param.y0),
                     Coordinate(h_tasks[t], rec_param.x1), Coordinate(h_tasks[t], rec_param.y1)) :
       IF o.err # "none"
         THEN h_tasks' = RaiseIn(h_tasks, t, o.err, h_tasks[t].loc)
         ELSE h_tasks' =
                SetTask(h_tasks, t, "located",
                        [h_tasks[t].loc EXCEPT !.sb_pos = o.sb_pos,
                                               !.sb_size = Some(rec_param.sb_size),
                                               !.rec_param = Some(rec_param)])
  /\ UNCHANGED <<heap, h_utils, dvars, avars, wvars, rvars, fvars>>

\* lines 114-117: the reference wave
RecRef(t) ==
  /\ h_tasks[t].op = "reconstruct"
  /\ h_tasks[t].pc = "located"
  /\ \E loc \in {h_tasks[t].loc} :
       IF h_tasks[t].ref_data = None
         THEN h_tasks' = SetTask(h_tasks, t, "ref_done", [loc EXCEPT !.w_ref = Some(One)])
         ELSE \E fr \in ReconstructHolo(heap[h_tasks[t].ref_data[1]],
                                        loc.sb_size[1], loc.sb_pos[1], h_utils) :
                IF fr.err # "none"
                  THEN h_tasks' = RaiseIn(h_tasks, t, fr.err,
                                          [loc EXCEPT !.frames = Append(@, fr)])
                  ELSE h_tasks' = SetTask(h_tasks, t, "ref_done",
                                          [loc EXCEPT !.w_ref = fr.wav,
                                                      !.frames = Append(@, fr)])
  /\ UNCHANGED <<heap, h_utils, dvars, avars, wvars, rvars, fvars>>

\* line 119: the object wave
RecObj(t) ==
  /\ h_tasks[t].op = "reconstruct"
  /\ h_tasks[t].pc = "ref_done"
  /\ \E loc \in {h_tasks[t].loc} :
     \E fr \in ReconstructHolo(heap[h_tasks[t].holo_data],
                               loc.sb_size[1], loc.sb_pos[1], h_utils) :
       IF fr.err # "none"
         THEN h_tasks' = RaiseIn(h_tasks, t, fr.err, [loc EXCEPT !.frames = Append(@, fr)])
         ELSE h_tasks' = SetTask(h_tasks, t, "obj_done",
                                 [loc EXCEPT !.w_obj = fr.wav, !.frames = Append(@, fr)])
  /\ UNCHANGED <<heap, h_utils, dvars, avars, wvars, rvars, fvars>>

\* lines 121-130: wave, phase, amp and the returned tuple
RecFinish(t) ==
  /\ h_tasks[t].op = "reconstruct"
  /\ h_tasks[t].pc = "obj_done"
  /\ \E loc \in {h_tasks[t].loc} :
     \E wave \in {Quotient(loc.w_obj[1], loc.w_ref)} :
       IF wave = None
         THEN h_tasks' = RaiseIn(h_tasks, t, "ValueError", loc)
         ELSE h_tasks' =
                [h_tasks EXCEPT
                   ![t].pc = "returned",
                   ![t].ret = Some([wave |-> wave[1], phase |-> Angle(wave[1]),
                                    amp |-> Absolute(wave[1]),
                                    rec_param |-> loc.rec_param[1]])]
  /\ UNCHANGED <<heap, h_utils, dvars, avars, wvars, rvars, fvars>>

\* a call of reconstruct_holo by itself
HoloCall(t) ==
  /\ h_tasks[t].op = "reconstruct_holo"
  /\ h_tasks[t].pc = "start"
  /\ \E loc \in {h_tasks[t].loc} :
     \E fr \in ReconstructHolo(heap[h_tasks[t].holo_data],
                               h_tasks[t].sb_size, h_tasks[t].sb_pos, h_utils) :
       IF fr.err # "none"
         THEN h_tasks' = RaiseIn(h_tasks, t, fr.err, [loc EXCEPT !.frames = Append(@, fr)])
         ELSE h_tasks' = [SetTask(h_tasks, t, "returned", [loc EXCEPT !.frames = Append(@, fr)])
                            EXCEPT ![t].ret = Some([wav |-> fr.wav[1]])]
  /\ UNCHANGED <<heap, h_utils, dvars, avars, wvars, rvars, fvars>>

\* the caller takes the rec_param a reconstruct call without rec_param has
\* returned and passes it to a second call on the same holograms
RecAgain(t) ==
  /\ h_tasks[t].op = "reconstruct"
  /\ h_tasks[t].pc = "returned"
  /\ h_tasks[t].rec_param = None
  /\ h_tasks[t].given = None
  /\ Len(h_tasks) = 1
  /\ h_tasks' = Append(h_tasks, TaskGiven(h_tasks[t].holo_data, h_tasks[t].ref_data,
                                          h_tasks[t].ret[1].rec_param))
  /\ UNCHANGED <<heap, h_utils, dvars, avars, wvars, rvars, fvars>>

(* ------------------------- holograms and calls ------------------------ *)

MaxAmp == 2

Margin == 2

MaxSide == CHOOSE n \in Sides : \A m \in Sides : m <= n

\* cos(2 pi k / 4) and sin(2 pi k / 4)
Cos4(k) == IF k % 4 = 0 THEN 1 ELSE IF k % 4 = 2 THEN -1 ELSE 0

Sin4(k) == IF k % 4 = 1 THEN 1 ELSE IF k % 4 = 3 THEN -1 ELSE 0

Patterns == {"coscol", "sincol", "cosrow", "sinrow", "diag"}

\* a hologram: carrier fringes of amplitude a on the mean MaxAmp
Hologram(shape, a, pat) ==
  Arr(shape[1], shape[2],
      [p \in Pix(shape[1], shape[2]) |->
         MaxAmp + a * (IF pat = "coscol" THEN Cos4(p[2])
                       ELSE IF pat = "sincol" THEN Sin4(p[2])
                       ELSE IF pat = "cosrow" THEN Cos4(p[1])
                       ELSE IF pat = "sinrow" THEN Sin4(p[1])
                       ELSE Cos4(p[1] + p[2]))])

HoloShapes == {<<MaxSide, MaxSide>>, <<MaxSide \div 2, MaxSide>>}

HoloImages == {Hologram(sh, a, pat) : sh \in HoloShapes, a \in 1 .. MaxAmp, pat \in Patterns}

FewImages ==
  {Hologram(<<MaxSide, MaxSide>>, 1, "sincol"),
   Hologram(<<MaxSide, MaxSide>>, MaxAmp, "diag"),
   Hologram(<<MaxSide \div 2, MaxSide>>, 1, "coscol")}

RefImages ==
  {Hologram(<<MaxSide, MaxSide>>, 1, "coscol"),
   Hologram(<<MaxSide \div 2, MaxSide>>, 1, "sincol")}

\* rec_param tuples (x0, y0, x1, y1, sb_size) a caller may pass
SpecRects ==
  {<<MaxSide - 1, 0, MaxSide, MaxSide>>, <<0, 0, MaxSide, MaxSide>>,
   <<MaxSide \div 2, MaxSide \div 2, MaxSide \div 2, MaxSide \div 2>>,
   <<0 - 3, 0 - 3, 0 - 1, 0 - 1>>, <<0, 0, MaxSide \div 2, MaxSide>>}

SpecSizes == {0 - Margin, 0, 2, 3, MaxSide}

RecParams ==
  {[x0 |-> r[1], y0 |-> r[2], x1 |-> r[3], y1 |-> r[4], sb_size |-> n] :
     r \in SpecRects, n \in SpecSizes}

SizeRange == (0 - Margin) .. (MaxSide + 1)

PosRange == (0 - Margin) .. (MaxSide + Margin - 1)

\* reconstruct_holo by itself
DirectCases ==
  {[heap |-> <<img>>,
    tasks |-> <<Task("reconstruct_holo", 1, None, None, n, <<y, x>>)>>] :
     img \in FewImages, n \in SizeRange, y \in PosRange, x \in PosRange}

\* one reconstruct call, rec_param given or not, with or without a reference
SingleCases ==
  {[heap |-> <<obj, c[1], rp>>,
    tasks |-> <<Task("reconstruct", 1, c[2], Some(3), 0, <<0, 0>>)>>] :
     obj \in HoloImages, rp \in RecParams,
     c \in ({Hologram(<<MaxSide, MaxSide>>, 1, "coscol")} \X {None})
             \cup (RefImages \X {Some(2)})}
  \cup
  {[heap |-> <<obj, c[1]>>,
    tasks |-> <<Task("reconstruct", 1, c[2], None, 0, <<0, 0>>)>>] :
     obj \in HoloImages,
     c \in ({Hologram(<<MaxSide, MaxSide>>, 1, "coscol")} \X {None})
             \cup (RefImages \X {Some(2)})}

\* two reconstruct calls, as concurrent tasks, on two hologram pairs that
\* share one rec_param
BatchCases ==
  {[heap |-> <<a, b, rp>>,
    tasks |-> <<Task("reconstruct", 1, Some(2), Some(3), 0, <<0, 0>>),
                Task("reconstruct", 2, None, Some(3), 0, <<0, 0>>)>>] :
     a \in FewImages, b \in FewImages, rp \in RecParams}

\* The name utils is unbound in holography.py as it stands (its import, line
\* 17, is commented out); it is bound once an importer assigns
\* holography.utils.  Both are initial states.
HoloInit ==
  /\ \E c \in DirectCases \cup SingleCases \cup BatchCases :
       /\ heap = c.heap
       /\ h_tasks = c.tasks
  /\ h_utils \in BOOLEAN
  /\ DudsIdle
  /\ AlignIdle
  /\ WrapIdle
  /\ RoiIdle
  /\ FresnelIdle

HoloNext ==
  \E t \in DOMAIN h_tasks :
    \/ RecSelect(t)
    \/ RecLocateDrawn(t)
    \/ RecLocateGiven(t)
    \/ RecRef(t)
    \/ RecObj(t)
    \/ RecFinish(t)
    \/ HoloCall(t)
    \/ RecAgain(t)

SpecHolo == HoloInit /\ [][HoloNext]_vars

(* --------------------- claims on the reconstruction ------------------- *)

Ended(t) == h_tasks[t].pc \in {"returned", "raised"}

\* [centre - size/2, centre + size/2) lies inside an axis of length n
InBounds(n, centre, size) == centre - size \div 2 >= 0 /\ centre + size \div 2 <= n

RoiInside(img, pos, size) ==
  InBounds(Rows(img), pos[1], size) /\ InBounds(Cols(img), pos[2], size)

GoodSize(n) == n > 0 /\ n % 2 = 0

\* the rectangle of rp is a non-empty part of the transform of img
GoodRect(rp, img) ==
  /\ 0 <= rp.x0 /\ rp.x0 < rp.x1 /\ rp.x1 <= Cols(img)
  /\ 0 <= rp.y0 /\ rp.y0 < rp.y1 /\ rp.y1 <= Rows(img)

\* call t is reconstruct with a rec_param, has found its sideband, and
\* rectangle, size and ROI are all well-formed
WellFormedCall(t) ==
  /\ h_tasks[t].op = "reconstruct"
  /\ h_tasks[t].rec_param # None
  /\ GoodRect(heap[h_tasks[t].rec_param[1]], heap[h_tasks[t].holo_data])
  /\ GoodSize(heap[h_tasks[t].rec_param[1]].sb_size)
  /\ h_tasks[t].loc.sb_pos # None
  /\ RoiInside(heap[h_tasks[t].holo_data], h_tasks[t].loc.sb_pos[1],
               heap[h_tasks[t].rec_param[1]].sb_size)

\* the waves reconstruct_holo returns for the object hologram of call t
ObjectWaves(t) ==
  {fr.wav[1] : fr \in {f \in ReconstructHolo(heap[h_tasks[t].holo_data],
                                             h_tasks[t].loc.sb_size[1],
                                             h_tasks[t].loc.sb_pos[1], h_utils) :
                         f.err = "none"}}

\* C12: reconstruct with no reference hologram and a given rec_param returns
\* the wave reconstruct_holo produces for the object hologram, with
\* phase = arg(wave) and amplitude = |wave| of that wave.
C12_WaveIsObjectWave ==
  \A t \in DOMAIN h_tasks :
    (WellFormedCall(t) /\ h_tasks[t].ref_data = None /\ Ended(t)) =>
      /\ h_tasks[t].pc = "returned"
      /\ h_tasks[t].ret[1].wave \in ObjectWaves(t)
      /\ h_tasks[t].ret[1].phase = Angle(h_tasks[t].ret[1].wave)
      /\ h_tasks[t].ret[1].amp = Absolute(h_tasks[t].ret[1].wave)

\* C12 where the name utils is bound in the module: there the claim holds
C12_WaveIsObjectWaveBound == h_utils => C12_WaveIsObjectWave

\* |z|^2
Mag2(z) == z[1] * z[1] + z[2] * z[2]

\* the pixels of largest magnitude of the transform f inside the rectangle of
\* rp, in the coordinates of f
Peaks(f, rp) ==
  LET inside == {p \in DOMAIN f.data : /\ rp.y0 <= p[1] /\ p[1] < rp.y1
                                       /\ rp.x0 <= p[2] /\ p[2] < rp.x1}
  IN  {p \in inside : \A q \in inside : Mag2(f.data[q]) <= Mag2(f.data[p])}

\* C13: with a rec_param given, the sideband centre reconstruct uses is the
\* pixel of maximum magnitude inside the rectangle, in the coordinates of the
\* whole transform, and the sideband size is rec_param's.
C13_CentreIsMagnitudePeak ==
  \A t \in DOMAIN h_tasks :
    (/\ h_tasks[t].op = "reconstruct"
     /\ h_tasks[t].rec_param # None
     /\ GoodRect(heap[h_tasks[t].rec_param[1]], heap[h_tasks[t].holo_data])
     /\ h_tasks[t].pc \notin {"start"}) =>
      /\ h_tasks[t].loc.sb_pos # None
      /\ h_tasks[t].loc.sb_pos[1]
           \in Peaks(FftShift(Fft2(heap[h_tasks[t].holo_data])), heap[h_tasks[t].rec_param[1]])
      /\ h_tasks[t].loc.sb_size = Some(heap[h_tasks[t].rec_param[1]].sb_size)

\* the part of C13 that holds: the size is rec_param's, the centre lies
\* inside the rectangle
C13_CentreInsideRect ==
  \A t \in DOMAIN h_tasks :
    (/\ h_tasks[t].op = "reconstruct"
     /\ h_tasks[t].rec_param # None
     /\ GoodRect(heap[h_tasks[t].rec_param[1]], heap[h_tasks[t].holo_data])
     /\ h_tasks[t].pc \notin {"start"}) =>
      /\ h_tasks[t].loc.sb_pos # None
      /\ heap[h_tasks[t].rec_param[1]].y0 <= h_tasks[t].loc.sb_pos[1][1]
      /\ h_tasks[t].loc.sb_pos[1][1] < heap[h_tasks[t].rec_param[1]].y1
      /\ heap[h_tasks[t].rec_param[1]].x0 <= h_tasks[t].loc.sb_pos[1][2]
      /\ h_tasks[t].loc.sb_pos[1][2] < heap[h_tasks[t].rec_param[1]].x1
      /\ h_tasks[t].loc.sb_size = Some(heap[h_tasks[t].rec_param[1]].sb_size)

\* the frame of the reconstruct_holo call that call t made last
LastFrame(t) == h_tasks[t].loc.frames[Len(h_tasks[t].loc.frames)]

\* C14: reconstruct_holo fails with a bounds error whenever the ROI
\* [centre - size/2, centre + size/2) is not inside the transform on either
\* axis; it extracts no ROI and returns no wave then.
C14_OutOfBoundsRaises ==
  \A t \in DOMAIN h_tasks :
    (/\ h_tasks[t].op = "reconstruct_holo"
     /\ Ended(t)
     /\ GoodSize(h_tasks[t].sb_size)
     /\ ~RoiInside(heap[h_tasks[t].holo_data], h_tasks[t].sb_pos, h_tasks[t].sb_size)) =>
      /\ h_tasks[t].pc = "raised"
      /\ h_tasks[t].err = "IndexError"
      /\ LastFrame(t).sb_roi = None

\* C14 without the error: out of bounds, reconstruct_holo returns no wave
C14_OutOfBoundsNoWave ==
  \A t \in DOMAIN h_tasks :
    (/\ h_tasks[t].op = "reconstruct_holo"
     /\ Ended(t)
     /\ GoodSize(h_tasks[t].sb_size)
     /\ ~RoiInside(heap[h_tasks[t].holo_data], h_tasks[t].sb_pos, h_tasks[t].sb_size)) =>
      h_tasks[t].pc = "raised"

\* the sideband size call t runs reconstruct_holo with; None before it is known
SizeOf(t) ==
  IF h_tasks[t].op = "reconstruct_holo" THEN Some(h_tasks[t].sb_size)
  ELSE IF h_tasks[t].rec_param # None /\ h_tasks[t].loc.sb_size # None
       THEN h_tasks[t].loc.sb_size
  ELSE None

\* C15: reconstruct_holo, and reconstruct with a rec_param, given a sideband
\* size that is odd, zero or negative raise a configuration error before any
\* ROI is extracted, and return no wave.
C15_BadSizeRaises ==
  \A t \in DOMAIN h_tasks :
    (SizeOf(t) # None /\ ~GoodSize(SizeOf(t)[1])) =>
      /\ h_tasks[t].pc # "returned"
      /\ h_tasks[t].pc = "raised" => h_tasks[t].err = "ValueError"
      /\ \A i \in DOMAIN h_tasks[t].loc.frames : h_tasks[t].loc.frames[i].sb_roi = None
      /\ h_tasks[t].op = "reconstruct" => h_tasks[t].pc = "raised"

\* C15 without its order: a bad size is never returned a wave for
C15_BadSizeNoWave ==
  \A t \in DOMAIN h_tasks :
    (SizeOf(t) # None /\ ~GoodSize(SizeOf(t)[1])) => h_tasks[t].pc # "returned"

\* the outcome of a call: how it ended and what it returned
Outcome(pc, err, ret) == [pc |-> pc, err |-> err, ret |-> ret]

\* the outcomes of the reconstruct call T (rec_param given) run by itself on
\* the heap hp: lines 76-130 in one go
AloneOutcomes(hp, T, utils) ==
  LET rp   == hp[T.rec_param[1]]
      refs == IF T.ref_data = None THEN {HoloFrame("none", None, None, Some(One))}
              ELSE {}
  IN  UNION {
        IF o.err # "none" THEN {Outcome("raised", o.err, None)}
        ELSE UNION {
          IF rf.err # "none" THEN {Outcome("raised", rf.err, None)}
          ELSE {IF ob.err # "none" THEN Outcome("raised", ob.err, None)
                ELSE IF Quotient(ob.wav[1], rf.wav) = None
                     THEN Outcome("raised", "ValueError", None)
                ELSE Outcome("returned", "none",
                             Some([wave |-> Quotient(ob.wav[1], rf.wav)[1],
                                   phase |-> Angle(Quotient(ob.wav[1], rf.wav)[1]),
                                   amp |-> Absolute(Quotient(ob.wav[1], rf.wav)[1]),
                                   rec_param |-> rp])) :
                  ob \in ReconstructHolo(hp[T.holo_data], rp.sb_size, o.sb_pos[1], utils)} :
            rf \in IF T.ref_data = None THEN refs
                   ELSE ReconstructHolo(hp[T.ref_data[1]], rp.sb_size, o.sb_pos[1], utils)} :
        o \in Locate(FftShift(Fft2(hp[T.holo_data])),
                     Some(rp.x0), Some(rp.y0), Some(rp.x1), Some(rp.y1))}

\* C20: reconstruct calls on different hologram pairs that share one
\* rec_param, interleaved as concurrent tasks, share no mutable state: the
\* holograms and the rec_param are never modified, and every call ends as the
\* same call ends when run by itself.
C20_TasksIsolated ==
  /\ [](\A t \in DOMAIN h_tasks :
          (h_tasks[t].op = "reconstruct" /\ h_tasks[t].rec_param # None /\ Ended(t)) =>
            Outcome(h_tasks[t].pc, h_tasks[t].err, h_tasks[t].ret)
              \in AloneOutcomes(heap, h_tasks[t], h_utils))
  /\ [][heap' = heap]_vars

C20_Witness ==
  /\ Len(h_tasks) = 2
  /\ h_tasks[1].pc = "returned"
  /\ h_tasks[2].pc = "returned"
  /\ h_tasks[1].loc.sb_pos # h_tasks[2].loc.sb_pos
  /\ h_tasks[1].ret[1].wave # h_tasks[2].ret[1].wave

CentredCall(t) ==
  /\ h_tasks[t].op = "reconstruct_holo"
  /\ Ended(t)
  /\ GoodSize(h_tasks[t].sb_size)
  /\ 0 <= h_tasks[t].sb_pos[1] /\ h_tasks[t].sb_pos[1] < Rows(heap[h_tasks[t].holo_data])
  /\ 0 <= h_tasks[t].sb_pos[2] /\ h_tasks[t].sb_pos[2] < Cols(heap[h_tasks[t].holo_data])

\* the arrays of the last reconstruct_holo frame of call t all have the edge n
AllOfEdge(t, n) ==
  /\ h_tasks[t].pc = "returned"
  /\ LastFrame(t).sb_roi # None /\ LastFrame(t).sb_roi[1].shape = <<n, n>>
  /\ LastFrame(t).c_mask # None /\ LastFrame(t).c_mask[1].shape = <<n, n>>
  /\ LastFrame(t).f_mask # None /\ LastFrame(t).f_mask[1].shape = <<n, n>>
  /\ LastFrame(t).w_two # None /\ LastFrame(t).w_two[1].shape = <<n, n>>
  /\ LastFrame(t).w_one # None /\ LastFrame(t).w_one[1].shape[1] = n
  /\ h_tasks[t].ret[1].wav.shape = <<n, n>>

\* C25: for every hologram, every in-bounds centre and every positive even
\* size, the ROI, the circular aperture, the Fresnel mask and the 2D window
\* of reconstruct_holo have shape (size, size), the 1D window has length
\* size, and the returned wave has shape (size, size).
C25_ShapesAreSizeSquare ==
  \A t \in DOMAIN h_tasks : CentredCall(t) => AllOfEdge(t, h_tasks[t].sb_size)

\* the part of C25 the code keeps: the same where the whole ROI lies inside
\* the transform and the name utils is bound
C25_ShapesInsideBound ==
  \A t \in DOMAIN h_tasks :
    (/\ CentredCall(t)
     /\ h_utils
     /\ RoiInside(heap[h_tasks[t].holo_data], h_tasks[t].sb_pos, h_tasks[t].sb_size)) =>
      AllOfEdge(t, h_tasks[t].sb_size)

(* ------------------------- angles (utils.py) -------------------------- *)

\* Angles are binary floating-point numbers, scaled down: an angle is an
\* integer count of the smallest step, and the representable angles are those
\* whose mantissa fits MantBits bits (float64 has 53).  Sums and differences
\* round to the nearest representable number, ties to the even mantissa.
MantBits == 4

MaxAngle == 120

\* np.pi, in steps: representable, and so is 2.0 * np.pi
Pi == 26

TwoPi == 2 * Pi

RECURSIVE Ulp(_)
\* spacing of the representable numbers at magnitude m >= 0
Ulp(m) == IF m < 2 ^ MantBits THEN 1 ELSE 2 * Ulp(m \div 2)

Representable(x) == Abs(x) % Ulp(Abs(x)) = 0

\* the float nearest to the exact value x
Fl(x) ==
  LET m  == Abs(x)
      u  == Ulp(m)
      lo == m - (m % u)
      hi == lo + u
      r  == IF m - lo < hi - m THEN lo
            ELSE IF m - lo > hi - m THEN hi
            ELSE IF (lo \div u) % 2 = 0 THEN lo ELSE hi
  IN  IF x < 0 THEN -r ELSE r

\* np.mod(x, m) and x % m for m > 0: fmod, which is exact and has the sign of
\* x, then + m (rounded) when the remainder is negative
PyMod(x, m) ==
  LET f == IF x >= 0 THEN x % m ELSE -((-x) % m)
  IN  IF f < 0 THEN Fl(f + m) ELSE f

\* utils.wrap_to_pi: np.mod(angle + np.pi, 2.0 * np.pi) - np.pi
WrapToPi(angle) == Fl(PyMod(Fl(angle + Pi), TwoPi) - Pi)

\* utils.wrap: angle % (2 * np.pi)
Wrap(angle) == PyMod(angle, TwoPi)

Angles == {x \in (-MaxAngle) .. MaxAngle : Representable(x)}

WrapInit ==
  /\ w_fn = "none"
  /\ w_angle \in Angles
  /\ w_out = 0
  /\ heap = <<>>
  /\ DudsIdle
  /\ AlignIdle
  /\ HoloIdle
  /\ RoiIdle
  /\ FresnelIdle

CallWrapToPi ==
  /\ w_fn = "none"
  /\ w_fn' = "wrap_to_pi"
  /\ w_out' = WrapToPi(w_angle)
  /\ UNCHANGED <<w_angle, heap, dvars, avars, hvars, rvars, fvars>>

CallWrap ==
  /\ w_fn = "none"
  /\ w_fn' = "wrap"
  /\ w_out' = Wrap(w_angle)
  /\ UNCHANGED <<w_angle, heap, dvars, avars, hvars, rvars, fvars>>

WrapNext == CallWrapToPi \/ CallWrap

SpecWrap == WrapInit /\ [][WrapNext]_vars

\* C16: wrap_to_pi(a) lies in (-pi, pi]; an input congruent to pi modulo 2 pi
\* maps to +pi and no input maps to -pi.
C16_WrapToPiHalfOpen ==
  w_fn = "wrap_to_pi" =>
    /\ -Pi < w_out /\ w_out <= Pi
    /\ w_angle % TwoPi = Pi => w_out = Pi

\* what the code does: the interval is closed at -pi and open at +pi
C16_WrapToPiLowerClosed ==
  w_fn = "wrap_to_pi" =>
    /\ -Pi <= w_out /\ w_out < Pi
    /\ w_angle % TwoPi = Pi => w_out = -Pi

\* distance of two angles around the circle
CircDist(x, y) ==
  LET d == (x - y) % TwoPi
  IN  IF d > Pi THEN TwoPi - d ELSE d

\* C17: wrap(a) is the representative of a modulo 2 pi in [0, 2 pi), for
\* negative a too, and wrap(a + 2 pi) is wrap(a); both up to the rounding of
\* one float operation at the magnitudes involved.
C17_WrapRepresentative ==
  w_fn = "wrap" =>
    /\ 0 <= w_out /\ w_out < TwoPi
    /\ CircDist(w_out, w_angle) <= Ulp(TwoPi)
    /\ CircDist(Wrap(Fl(w_angle + TwoPi)), w_out) <= Ulp(Abs(w_angle) + TwoPi)

\* the range without its upper end: what C17 violates
C17_WrapRangeClosed ==
  w_fn = "wrap" =>
    /\ 0 <= w_out /\ w_out <= TwoPi
    /\ CircDist(w_out, w_angle) <= Ulp(TwoPi)

(* ------------------ claims on selection and on aliasing ---------------- *)

Requested(log) == \E i \in DOMAIN log : log[i] = "requestRectangle"

\* C18 for align_img: the rectangle was asked for and is not complete
C18_AlignSelectionTimeout ==
  (/\ a_pc \in {"estimated", "returned", "raised"}
   /\ Requested(a_log)
   /\ ~RectSet(a_rect)) =>
    a_pc = "raised" /\ a_err = "SelectionTimeout"

\* C18 for reconstruct without rec_param
C18_HoloSelectionTimeout ==
  \A t \in DOMAIN h_tasks :
    (/\ h_tasks[t].pc \notin {"start", "selected"}
     /\ Requested(h_tasks[t].log)
     /\ ~RectSet(h_tasks[t].loc.rect)) =>
      h_tasks[t].pc = "raised" /\ h_tasks[t].err = "SelectionTimeout"

\* C18: when the rectangle selection does not complete within its waits (no
\* press, or a press without release), align_img and reconstruct raise a
\* SelectionTimeout and compute nothing from the unset coordinates.
C18_SelectionTimeout == C18_AlignSelectionTimeout /\ C18_HoloSelectionTimeout

\* C19: align_img never modifies img_one or img_two, and the aligned image it
\* returns is an array that did not exist before, for every strategy and
\* drift.
C19_InputsUntouched ==
  [][a_pc # "idle" =>
       /\ heap'[a_args.img_one] = heap[a_args.img_one]
       /\ heap'[a_args.img_two] = heap[a_args.img_two]
       /\ a_pc' = "returned" =>
            /\ a_ret'.img_algn \notin DOMAIN heap
            /\ a_ret'.img_algn \in DOMAIN heap'
            /\ heap'[a_ret'.img_algn] = Aligned(heap[a_args.img_two], a_ret'.drift)]_vars

C19_Witness ==
  /\ a_pc = "returned"
  /\ a_ret.drift = <<0, 0>>
  /\ ~a_args.sb_filtering
  /\ a_ret.img_algn \notin {a_args.img_one, a_args.img_two}
  /\ heap[a_ret.img_algn] = heap[a_args.img_two]

(* ------------------ claims on the region and the filter ---------------- *)

\* the rectangle is chosen and the call has not raised
RoiChosen == a_pc \in {"roi", "estimated", "returned"}

\* C22: without ROI restriction (roi=False) the crops used for the drift
\* estimation have the shape of the input image: all rows and all columns,
\* the last row and the last column included.
C22_FullImageCrop ==
  (RoiChosen /\ ~a_args.roi) =>
    CropShape(Rows(heap[a_args.img_one]), Cols(heap[a_args.img_one]), a_rect)
      = heap[a_args.img_one].shape

\* C27: with band-pass filtering, align_img builds one disk mask of the shape
\* of the image, for every image shape, square or not, and applies that same
\* mask to the transforms of the reference and of the target.
C27_MaskForEveryShape ==
  (a_args.impl # "none" /\ a_args.sb_filtering /\ a_pc # "start") =>
    /\ a_work # None
    /\ a_work.one.kind = "lowpass" /\ a_work.two.kind = "lowpass"
    /\ a_work.one.mask.shape = heap[a_args.img_one].shape
    /\ a_work.two.mask = a_work.one.mask

\* C30: a configuration error (unknown strategy, manual without offset) is
\* raised before any ROI request and before any filtering or estimation: no
\* event precedes the error.
C30_ErrorBeforeWork ==
  (a_pc = "raised" /\ a_err = "ValueError") => a_log = <<>>

(* ----------------------- claims on the estimators --------------------- *)

Estimate(name) == a_pc \in {"estimated", "returned"} /\ Is(a_args.method, name)

\* the fraction f is q quarter pixels
IsQuarters(f, q) == q * f.den = DriftDen * f.num

\* C23: in the registration strategy the drift returned and applied is the
\* (dy, dx) the translation estimator reported on the cropped pair, not
\* rescaled by the ratio of image size to ROI size, for every ROI.
C23_DriftIsReportedShift ==
  Estimate("imgreg") =>
    /\ IsQuarters(a_work.shift[1], a_drift[2])
    /\ IsQuarters(a_work.shift[2], a_drift[1])
    /\ a_pc = "returned" =>
         /\ a_ret.drift = a_drift
         /\ AlignedImg = Aligned(Target, a_drift)

\* the part of C23 that mtools.align_img keeps
C23_MtoolsDriftIsReportedShift ==
  (Estimate("imgreg") /\ a_args.impl = "mtools") =>
    /\ IsQuarters(a_work.shift[1], a_drift[2])
    /\ IsQuarters(a_work.shift[2], a_drift[1])
    /\ a_pc = "returned" =>
         /\ a_ret.drift = a_drift
         /\ AlignedImg = Aligned(Target, a_drift)

\* the bin factor in use: utils.align_img has none
BinFactor == IF a_args.impl = "mtools" THEN a_args.binning ELSE 1

\* the centre of the template, in the coordinates of the binned image
TemplateCentre ==
  <<a_rect.y0[1] \div BinFactor + a_work.template[1] \div 2,
    a_rect.x0[1] \div BinFactor + a_work.template[2] \div 2>>

\* C24: in the crossCorrelation strategy, for every ROI and bin factor, the
\* drift is (peak of the correlation - centre of the template), both in binned
\* coordinates, times the bin factor.
C24_XcorrDrift ==
  Estimate("xcorr") =>
    /\ a_drift[2] = Quarters((a_work.peak[1] - TemplateCentre[1]) * BinFactor)
    /\ a_drift[1] = Quarters((a_work.peak[2] - TemplateCentre[2]) * BinFactor)

\* the reading with the centre taken inside the template, which mtools keeps
\* without binning
C24_XcorrDriftUnbinned ==
  (Estimate("xcorr") /\ a_args.impl = "mtools" /\ a_args.binning = 1) =>
    /\ a_drift[2] = Quarters(a_work.peak[1] - (a_work.template[1] \div 2))
    /\ a_drift[1] = Quarters(a_work.peak[2] - (a_work.template[2] \div 2))

(* --------------------- despiking a uniform image ----------------------- *)

\* C29: rm_duds with sigma 8 and kernel 5 on a uniform image, of any size and
\* background value, flags no pixel and changes no pixel, corners and borders
\* included.
C29_UniformUntouched ==
  (/\ d_pc \in {"returned", "raised"}
   /\ d_calls = 1
   /\ d_args.sigma = DefaultSigma
   /\ d_args.median_k = DefaultKernel
   /\ Cardinality(Values(Before)) = 1) =>
    /\ d_pc = "returned"
    /\ \A p \in DOMAIN d_ret[2] : ~d_ret[2][p]
    /\ Now = Before

(* ------------------------------- RoiRect ------------------------------- *)

\* largest pixel coordinate an event carries
MaxCoord == 1

\* canvas events delivered to one RoiRect
MaxEvents == 4

\* event.xdata, event.ydata: both None when the pointer is outside the axes
Points ==
  {[xdata |-> None, ydata |-> None]}
  \cup {[xdata |-> Some(x), ydata |-> Some(y)] : x \in 0 .. MaxCoord, y \in 0 .. MaxCoord}

\* the three mpl_connect calls of __init__: each returns a connection id
Connections ==
  [cid \in {"cid1", "cid2", "cid3"} |->
     IF cid = "cid1" THEN [event |-> "button_press_event", handler |-> "on_press"]
     ELSE IF cid = "cid2" THEN [event |-> "button_release_event", handler |-> "on_release"]
     ELSE [event |-> "motion_notify_event", handler |-> "on_motion"]]

\* canvas.mpl_disconnect(cid): the connection with that id is dropped; a cid
\* that is not in the registry is passed over
MplDisconnect(callbacks, cid) == [c \in DOMAIN callbacks \ {cid} |-> callbacks[c]]

\* RoiRect(): the attribute set does not exist yet
NewRoiRect ==
  [x0 |-> None, y0 |-> None, x1 |-> None, y1 |-> None, set |-> None,
   callbacks |-> Connections]

Handled(self) == [roi |-> self, err |-> "none"]

\* self.rect.set_width(self.x1 - self.x0), set_height(self.y1 - self.y0): None
\* on either side is a TypeError, which ends the handler
Resized(self) ==
  IF self.x0 = None \/ self.x1 = None \/ self.y0 = None \/ self.y1 = None
  THEN [roi |-> self, err |-> "TypeError"]
  ELSE Handled(self)

OnPress(self, event) ==
  Handled([self EXCEPT !.x0 = event.xdata, !.y0 = event.ydata, !.set = Some(FALSE)])

\* the three mpl_disconnect calls are given the handlers, not the connection ids
OnRelease(self, event) ==
  LET moved == Resized([self EXCEPT !.x1 = event.xdata, !.y1 = event.ydata])
  IN  IF moved.err # "none" THEN moved
      ELSE Handled([moved.roi EXCEPT
                      !.set = Some(TRUE),
                      !.callbacks = MplDisconnect(MplDisconnect(MplDisconnect(@,
                                      "on_press"), "on_release"), "on_motion")])

OnMotion(self, event) ==
  IF self.x0 = None THEN Handled(self)
  ELSE IF self.set = Some(TRUE) THEN Handled(self)
  ELSE Resized([self EXCEPT !.x1 = event.xdata, !.y1 = event.ydata])

\* the canvas calls the handlers connected to the event
Listening(self, eventname, handler) ==
  \E c \in DOMAIN self.callbacks :
    self.callbacks[c] = [event |-> eventname, handler |-> handler]

StoredRect(self) == <<self.x0, self.y0, self.x1, self.y1>>

Deliver(out, made) ==
  /\ r_roi' = out.roi
  /\ r_err' = out.err
  /\ r_made' = made
  /\ r_n' = r_n + 1
  /\ UNCHANGED <<heap, dvars, avars, wvars, hvars, fvars>>

ButtonPress ==
  /\ r_n < MaxEvents
  /\ Listening(r_roi, "button_press_event", "on_press")
  /\ \E event \in Points : Deliver(OnPress(r_roi, event), r_made)

\* r_made keeps the rectangle of the first release that completes
ButtonRelease ==
  /\ r_n < MaxEvents
  /\ Listening(r_roi, "button_release_event", "on_release")
  /\ \E event \in Points :
       \E out \in {OnRelease(r_roi, event)} :
         Deliver(out, IF r_made = None /\ out.roi.set = Some(TRUE)
                      THEN Some(StoredRect(out.roi)) ELSE r_made)

MotionNotify ==
  /\ r_n < MaxEvents
  /\ Listening(r_roi, "motion_notify_event", "on_motion")
  /\ \E event \in Points : Deliver(OnMotion(r_roi, event), r_made)

RoiInit ==
  /\ heap = <<>>
  /\ r_roi = NewRoiRect
  /\ r_err = "none"
  /\ r_made = None
  /\ r_n = 0
  /\ DudsIdle
  /\ AlignIdle
  /\ WrapIdle
  /\ HoloIdle
  /\ FresnelIdle

RoiNext == ButtonPress \/ ButtonRelease \/ MotionNotify

SpecRoi == RoiInit /\ [][RoiNext]_vars

\* C28: RoiRect makes only one ROI: once a press and a release have made the
\* rectangle, no later press, motion or release changes the stored
\* (x0, y0, x1, y1).
C28_OnlyOneRoi == r_made # None => StoredRect(r_roi) = r_made[1]

(* ------------------ the Fresnel mask of reconstruct_holo --------------- *)

\* edge of the holograms a mask is built for
HoloEdge == 16

\* largest sideband size a mask is built for
MaxRoi == 10

\* fresnel_ratio = 0.3 when the argument is empty
RatioNum == 3

RatioDen == 10

\* fresnel_width = 6 when the argument is empty
FresnelWidth == 6

Sign(x) == IF x > 0 THEN 1 ELSE IF x < 0 THEN -1 ELSE 0

\* np.sin(ang) and np.cos(ang) for ang = np.arctan2(dy, dx), the direction
\* along an axis (dy = 0 or dx = 0); arctan2(0, 0) is 0
SinAng(dy, dx) == IF dx = 0 THEN Sign(dy) ELSE 0

CosAng(dy, dx) == IF dy = 0 THEN (IF dx < 0 THEN -1 ELSE 1) ELSE 0

\* np.round(n / d), d > 0: to the nearest integer, a half to the even one
RoundHalfEven(n, d) ==
  LET q == n \div d
      m == n % d
  IN  IF 2 * m < d THEN q
      ELSE IF 2 * m > d THEN q + 1
      ELSE IF q % 2 = 0 THEN q ELSE q + 1

\* which points of its outline draw.polygon fills: the lower and left edges
\* only, or the whole outline, by the version of skimage
PolygonFills == {"halfopen", "closed"}

Lowest(S) == CHOOSE v \in S : \A w \in S : v <= w

Highest(S) == CHOOSE v \in S : \A w \in S : w <= v

Filled(v, S, fill) ==
  /\ Lowest(S) <= v
  /\ IF fill = "closed" THEN v <= Highest(S) ELSE v < Highest(S)

\* utils.poly_to_mask(vertex_row_coords, vertex_col_coords, shape): the pixels
\* set in the mask, draw.polygon clipped to shape, for the four corners of a
\* rectangle along the axes
PolyToMask(vertex_row_coords, vertex_col_coords, shape, fill) ==
  {p \in (0 .. shape[1] - 1) \X (0 .. shape[2] - 1) :
     /\ Filled(p[1], {vertex_row_coords[i] : i \in 1 .. 4}, fill)
     /\ Filled(p[2], {vertex_col_coords[i] : i \in 1 .. 4}, fill)}

\* lines 201-202 and 214-229: the corners aa, bb, cc, dd of the strip, each
\* (y, x), for a ROI of shape (sb_ny, sb_nx) in a hologram of shape (sx, sy)
Abcd(sx, sy, sb_pos, sb_ny, sb_nx) ==
  LET sb_l  == IF sb_ny \div 2 < sb_nx \div 2 THEN sb_ny \div 2 ELSE sb_nx \div 2
      ceny  == sb_ny \div 2
      cenx  == sb_nx \div 2
      sin   == SinAng(sx \div 2 - sb_pos[1], sy \div 2 - sb_pos[2])
      cos   == CosAng(sx \div 2 - sb_pos[1], sy \div 2 - sb_pos[2])
      p_one == <<RoundHalfEven(RatioNum * sb_l * sin, RatioDen),
                 RoundHalfEven(RatioNum * sb_l * cos, RatioDen)>>
      p_two == <<sb_l * sin, sb_l * cos>>
      r     == FresnelWidth \div 2
      \* ang_one = ang - pi/2: sin(ang_one) = -cos(ang), cos(ang_one) = sin(ang)
      \* ang_two = ang + pi/2: sin(ang_two) = cos(ang), cos(ang_two) = -sin(ang)
  IN  <<<<p_one[1] - r * cos + ceny, p_one[2] + r * sin + cenx>>,
        <<p_one[1] + r * cos + ceny, p_one[2] - r * sin + cenx>>,
        <<p_two[1] + r * cos + ceny, p_two[2] - r * sin + cenx>>,
        <<p_two[1] - r * cos + ceny, p_two[2] + r * sin + cenx>>>>

\* line 230: f_mask = utils.poly_to_mask(abcd[:,1], abcd[:,0], sb_roi.shape)
FresnelMask(abcd, shape, fill) ==
  PolyToMask([i \in 1 .. 4 |-> abcd[i][2]], [i \in 1 .. 4 |-> abcd[i][1]], shape, fill)

\* sideband centres on the row or on the column of the hologram centre
AxisCentres ==
  {<<HoloEdge \div 2, x>> : x \in 0 .. HoloEdge - 1}
  \cup {<<y, HoloEdge \div 2>> : y \in 0 .. HoloEdge - 1}

FresnelInit ==
  /\ heap = <<>>
  /\ f_args \in [sx : {HoloEdge}, sy : {HoloEdge}, sb_pos : AxisCentres,
                  sb_size : 1 .. MaxRoi, fill : PolygonFills]
  /\ f_out = None
  /\ h_utils \in BOOLEAN
  /\ h_tasks = <<>>
  /\ DudsIdle
  /\ AlignIdle
  /\ WrapIdle
  /\ RoiIdle

\* lines 197-230 of reconstruct_holo, the shapes and the Fresnel mask only
FresnelCall ==
  /\ f_out = None
  /\ f_args.sb_size > 0
  /\ LET half  == f_args.sb_size \div 2
         sb_ny == SliceLen(f_args.sx, Some(f_args.sb_pos[1] - half), Some(f_args.sb_pos[1] + half))
         sb_nx == SliceLen(f_args.sy, Some(f_args.sb_pos[2] - half), Some(f_args.sb_pos[2] + half))
     IN  f_out' =
           Some(IF sb_nx # sb_ny
                  THEN [err |-> "IndexError", shape |-> <<sb_ny, sb_nx>>, abcd |-> <<>>, f_mask |-> {}]
                ELSE IF ~h_utils
                  THEN [err |-> "NameError", shape |-> <<sb_ny, sb_nx>>, abcd |-> <<>>, f_mask |-> {}]
                ELSE [err |-> "none", shape |-> <<sb_ny, sb_nx>>,
                      abcd |-> Abcd(f_args.sx, f_args.sy, f_args.sb_pos, sb_ny, sb_nx),
                      f_mask |-> FresnelMask(Abcd(f_args.sx, f_args.sy, f_args.sb_pos,
                                                  sb_ny, sb_nx),
                                             <<sb_ny, sb_nx>>, f_args.fill)])
  /\ UNCHANGED <<heap, f_args, dvars, avars, wvars, hvars, rvars>>

FresnelNext == FresnelCall

SpecFresnel == FresnelInit /\ [][FresnelNext]_vars

\* the mask of the call is built
MaskBuilt == f_out # None /\ f_out[1].err = "none"

\* the sideband centre lies on the row of the hologram centre, beside it
OnCentreRow ==
  f_args.sb_pos[1] = f_args.sx \div 2 /\ f_args.sb_pos[2] # f_args.sy \div 2

OnCentreColumn ==
  f_args.sb_pos[2] = f_args.sy \div 2 /\ f_args.sb_pos[1] # f_args.sx \div 2

\* C26: the Fresnel mask is a thin strip along the direction from the
\* sideband centre to the hologram centre: for a sideband on the row of the
\* hologram centre every masked pixel lies within the half-width of the strip
\* of the centre row of the ROI, and for one on the column of the hologram
\* centre within the half-width of the centre column.
C26_StripAlongRadius ==
  MaskBuilt =>
    /\ OnCentreRow =>
         \A p \in f_out[1].f_mask :
           Abs(p[1] - f_out[1].shape[1] \div 2) <= FresnelWidth \div 2
    /\ OnCentreColumn =>
         \A p \in f_out[1].f_mask :
           Abs(p[2] - f_out[1].shape[2] \div 2) <= FresnelWidth \div 2

\* what the code builds: the strip of C26 with rows and columns exchanged
C26_StripAcrossRadius ==
  MaskBuilt =>
    /\ OnCentreRow =>
         \A p \in f_out[1].f_mask :
           Abs(p[2] - f_out[1].shape[2] \div 2) <= FresnelWidth \div 2
    /\ OnCentreColumn =>
         \A p \in f_out[1].f_mask :
           Abs(p[1] - f_out[1].shape[1] \div 2) <= FresnelWidth \div 2

====
